---- MODULE Spec2Model ----
(***************************************************************************)
(* The navc symbol store: the map from file id to translation-unit record  *)
(* (symbolsTUDB) and the operations that keep the header/includer graph.   *)
(* The repository holds three generations of the store, all modelled here  *)
(* over the same inputs:                                                   *)
(*   "cache"  the file-per-TU store with an in-memory cache and an index   *)
(*            (src/unnamed/part_007),                                      *)
(*   "old"    its predecessor (src/symbols-db.go),                         *)
(*   "kv"     the store on a transactional key/value backing               *)
(*            (src/symbols_db.go).                                         *)
(***************************************************************************)
EXTENDS Integers, Sequences, FiniteSets, TLC

\* ------------------------------------------------------------------ bounds
\* the latest mtime of a source file, and of a header, that a parse records
MaxMtime == 2
MaxHMtime == 2
\* the time after which no call is made on the store
MaxClock == 4
\* the number of indexing goroutines, and the capacity of the parse queue
NIndexingThreads == 2
\* the number of file system events the watcher delivers
MaxEvents == 1

\* ------------------------------------------------------------- the inputs
CFiles == {"a.c", "b.c"}
HFiles == {"a.h", "b.h"}
Paths == CFiles \cup HFiles
Mtimes == 1..MaxMtime
HMtimes == 1..MaxHMtime

\* getStringEncode: the sha1 of a path, here an injective code of the path
getStringEncode(str) ==
  CASE str = "a.c" -> 11
    [] str = "b.c" -> 12
    [] str = "c.c" -> 13
    [] str = "d.c" -> 14
    [] str = "a.h" -> 21
    [] str = "b.h" -> 22
    [] str = "IDoNotReallyExist-a.h" -> 31
    [] str = "IDoNotReallyExist-b.h" -> 32
    [] str = "c:@F@f" -> 41
    [] str = "c:@F@g" -> 42
    [] OTHER -> 0

\* nonExistingHeaderName: the paths of the model have no directory part, so
\* filepath.Base leaves them as they are
nonExistingHeaderName(headPath) == "IDoNotReallyExist-" \o headPath

FileIDs == {getStringEncode(p) : p \in Paths}
CIDs == {getStringEncode(p) : p \in CFiles}
HIDs == {getStringEncode(p) : p \in HFiles}

\* Go maps: absent key = not in DOMAIN
MapPut(m, k, v) == [x \in (DOMAIN m) \cup {k} |-> IF x = k THEN v ELSE m[x]]
MapDel(m, k) == [x \in (DOMAIN m) \ {k} |-> m[x]]
EmptyMap == [x \in {} |-> 0]

\* the orders in which a range over a Go map may visit a set of keys
Perms(S) == {f \in [1..Cardinality(S) -> S] : \A i, j \in 1..Cardinality(S) : i # j => f[i] # f[j]}
\* every loop of the store ranges over header ids only or over includer
\* (C file) ids only, so the relative order of the two kinds is immaterial
HOrders == Perms(HIDs)
RECURSIVE InOrder(_, _)
InOrder(ord, S) ==
  IF ord = <<>> THEN <<>>
  ELSE IF Head(ord) \in S THEN <<Head(ord)>> \o InOrder(Tail(ord), S)
  ELSE InOrder(Tail(ord), S)

\* ------------------------------------------------------------ TU records
\* symbolsTUDB: the exported fields are what gob writes; headersTUDB and
\* tmpFile exist only in memory while parsing.
newSymbolsTUDB(file, mtime) ==
  [File |-> file, Mtime |-> mtime, Headers |-> EmptyMap, Includers |-> {},
   SymLoc |-> EmptyMap, SymData |-> EmptyMap, headersTUDB |-> {}, tmpFile |-> ""]

\* the nil *symbolsTUDB
NilTUDB == newSymbolsTUDB("", 0)

\* a variant of the encoder that leaves the symbol data out
SaveSymbolsTUDB_noSymData(tudb) ==
  [File |-> tudb.File, Mtime |-> tudb.Mtime, Headers |-> tudb.Headers,
   Includers |-> tudb.Includers,
   SymLoc |-> tudb.SymLoc, SymData |-> EmptyMap]

\* SaveSymbolsTUDB / symbolsTUDBToBin: gob encodes the exported fields only
SaveSymbolsTUDB(tudb) ==
  [File |-> tudb.File, Mtime |-> tudb.Mtime, Headers |-> tudb.Headers,
   Includers |-> tudb.Includers,
   SymLoc |-> tudb.SymLoc, SymData |-> tudb.SymData]

\* loadSymbolsTUDB / binToSymbolsTUDB: the unexported fields come back zero
loadSymbolsTUDB(bin) ==
  [File |-> bin.File, Mtime |-> bin.Mtime, Headers |-> bin.Headers,
   Includers |-> bin.Includers, SymLoc |-> bin.SymLoc, SymData |-> bin.SymData,
   headersTUDB |-> {}, tmpFile |-> ""]

\* InsertHeader(inclPath, headFile): name and time are headFile.Name() and
\* headFile.Time(); an include that resolves to no file has the name ""
InsertHeader(tudb, inclPath, name, time) ==
  IF name = ""
  THEN [tudb EXCEPT !.Headers = MapPut(@, getStringEncode(nonExistingHeaderName(inclPath)), 0),
                    !.headersTUDB = @ \cup {nonExistingHeaderName(inclPath)}]
  ELSE [tudb EXCEPT !.Headers = MapPut(@, getStringEncode(name), time),
                    !.headersTUDB = @ \cup {name}]

\* InsertHeader for every include hs of a file: hm[h] is the mtime of the
\* file h resolves to, 0 when it resolves to none
RECURSIVE InsertHeaders(_, _, _)
InsertHeaders(tudb, hs, hm) ==
  IF hs = {} THEN tudb
  ELSE LET h == CHOOSE x \in hs : TRUE
       IN InsertHeaders(InsertHeader(tudb, h, IF hm[h] = 0 THEN "" ELSE h, hm[h]),
                        hs \ {h}, hm)

\* TempSaveDB: the parser leaves the serialised record in a temp file
TempSaveDB(tudb) == [tudb EXCEPT !.tmpFile = "tmp"]

\* the records a parse of a C file can hand to InsertTUDB
ParsedTUDBs ==
  {TempSaveDB(InsertHeaders(newSymbolsTUDB(f, m), hs, hm)) :
     f \in CFiles, m \in Mtimes, hs \in SUBSET HFiles, hm \in [HFiles -> HMtimes]}

\* the same with includes that resolve to no file
PhantomTUDBs ==
  {TempSaveDB(InsertHeaders(newSymbolsTUDB(f, m), hs, hm)) :
     f \in CFiles, m \in Mtimes, hs \in SUBSET HFiles, hm \in [HFiles -> 0..MaxHMtime]}

\* ------------------------------------------- the symbols of a TU record
\* SymLoc maps a location to the id of the symbol found there; SymData maps
\* a symbol id to its symbolData [Name, Uses, Decls, DefAvail, Def], Uses a
\* sequence of symbolUse [Loc, FuncCall], Decls a sequence of locations.

\* the nil *symbolInfo
NilSym == [name |-> "", usr |-> "", loc |-> [File |-> "", Line |-> 0, Col |-> 0]]

\* the cursors a parse reports (symbolInfo): two functions seen at two
\* places of a.c and one place of a.h
SymbolInfos ==
  {[name |-> n, usr |-> "c:@F@" \o n, loc |-> [File |-> l[1], Line |-> l[2], Col |-> 1]] :
     n \in {"f", "g"}, l \in {<<"a.c", 1>>, <<"a.c", 2>>, <<"a.h", 1>>}}

\* the conversion int16(x) of an int: the low 16 bits, read as a signed number
int16(x) == ((x + 32768) % 65536) - 32768

\* getSymbolLoc: the file of a location becomes its id, the line and the
\* column are converted to int16
getSymbolLoc(sym) ==
  [File |-> getStringEncode(sym.File), Line |-> int16(sym.Line), Col |-> int16(sym.Col)]

getSymbolData(tudb, id, name) ==
  IF id \in DOMAIN tudb.SymData THEN tudb.SymData[id]
  ELSE [Name |-> name, Uses |-> <<>>, Decls |-> <<>>, DefAvail |-> FALSE,
        Def |-> getSymbolLoc(NilSym.loc)]

\* InsertSymbolDecl(sym) is insertSymbolDeclWithDef(sym, nil)
insertSymbolDeclWithDef(tudb, sym, def) ==
  LET id == getStringEncode(sym.usr)
      symLoc == getSymbolLoc(sym.loc)
      data == getSymbolData(tudb, id, sym.name)
  IN [tudb EXCEPT
        !.SymLoc = MapPut(@, symLoc, id),
        !.SymData = MapPut(@, id,
           [data EXCEPT !.Decls = Append(@, symLoc),
                        !.DefAvail = IF def # NilSym THEN TRUE ELSE @,
                        !.Def = IF def # NilSym THEN getSymbolLoc(def.loc) ELSE @])]

\* a variant that registers the location and records no use
InsertSymbolUse_noUse(tudb, sym, dec, funcCall) ==
  IF dec = NilSym THEN tudb
  ELSE [tudb EXCEPT !.SymLoc = MapPut(@, getSymbolLoc(sym.loc), getStringEncode(dec.usr))]

\* a variant whose merge stores the new funcCall in place of the disjunction
InsertSymbolUse_noOr(tudb, sym, dec, funcCall) ==
  LET id == getStringEncode(dec.usr)
      symLoc == getSymbolLoc(sym.loc)
      data == getSymbolData(tudb, id, sym.name)
      n == Len(data.Uses)
  IN IF dec = NilSym THEN tudb
     ELSE IF symLoc \in DOMAIN tudb.SymLoc /\ tudb.SymLoc[symLoc] # id THEN tudb
     ELSE IF symLoc \in DOMAIN tudb.SymLoc /\ n > 0 /\ data.Uses[n].Loc = symLoc
     THEN [tudb EXCEPT !.SymData[id].Uses[n].FuncCall = funcCall]
     ELSE [tudb EXCEPT
             !.SymLoc = MapPut(@, symLoc, id),
             !.SymData = MapPut(@, id,
                [data EXCEPT !.Uses = Append(@, [Loc |-> symLoc, FuncCall |-> funcCall])])]

\* a variant without the test of the symbol registered at the location
InsertSymbolUse_noMask(tudb, sym, dec, funcCall) ==
  LET id == getStringEncode(dec.usr)
      symLoc == getSymbolLoc(sym.loc)
      data == getSymbolData(tudb, id, sym.name)
      n == Len(data.Uses)
  IN IF dec = NilSym THEN tudb
     ELSE IF symLoc \in DOMAIN tudb.SymLoc /\ n > 0 /\ data.Uses[n].Loc = symLoc
     THEN [tudb EXCEPT !.SymData[id].Uses[n].FuncCall = @ \/ funcCall]
     ELSE [tudb EXCEPT
             !.SymLoc = MapPut(@, symLoc, id),
             !.SymData = MapPut(@, id,
                [data EXCEPT !.Uses = Append(@, [Loc |-> symLoc, FuncCall |-> funcCall])])]

\* InsertSymbolUse: lastUse points into the Uses array that SymData[id]
\* shares with the local copy data, so the merged FuncCall is stored
InsertSymbolUse(tudb, sym, dec, funcCall) ==
  LET id == getStringEncode(dec.usr)
      symLoc == getSymbolLoc(sym.loc)
      data == getSymbolData(tudb, id, sym.name)
      n == Len(data.Uses)
  IN IF dec = NilSym THEN tudb
     ELSE IF symLoc \in DOMAIN tudb.SymLoc /\ tudb.SymLoc[symLoc] # id THEN tudb
     ELSE IF symLoc \in DOMAIN tudb.SymLoc /\ n > 0 /\ data.Uses[n].Loc = symLoc
     THEN [tudb EXCEPT !.SymData[id].Uses[n].FuncCall = @ \/ funcCall]
     ELSE [tudb EXCEPT
             !.SymLoc = MapPut(@, symLoc, id),
             !.SymData = MapPut(@, id,
                [data EXCEPT !.Uses = Append(@, [Loc |-> symLoc, FuncCall |-> funcCall])])]

\* ------------------------------------------- the cached store (part_007)
\* A store state s is [TUDBs, disk]: TUDBs maps a file id to its cache slot
\* (tuSymbolsDBCache), disk maps a file id to the bytes of its database file.
NewCache(tudb, mtime, path, accTime, dirty) ==
  [tudb |-> tudb, Mtime |-> mtime, Path |-> path, accTime |-> accTime, dirty |-> dirty]

\* index is the index file: present or not, and the Mtime and Path it holds
\* for every slot
EmptyStore ==
  [TUDBs |-> EmptyMap, disk |-> EmptyMap, index |-> [exist |-> FALSE, TUDBs |-> EmptyMap]]

\* results of the calls: the store after the call, the error ("" is nil,
\* "panic" a Go panic) and the returned value ({} when there is none)
Ret(s, err, val) == [s |-> s, err |-> err, val |-> val]

\* the result of a call that returns the error of the call g it made
Fail(g) == Ret(g.s, g.err, {})

\* the value of an expression with one value: Only({e(v) : v \in {x}}) is
\* e(x), the result x of a call bound to v
Only(S) == CHOOSE e \in S : TRUE

\* LoadSymbolsTUDBFromSha1: opening a missing database file is an error
LoadSymbolsTUDBFromSha1(s, fid) ==
  IF fid \in DOMAIN s.disk
  THEN Ret(s, "", loadSymbolsTUDB(s.disk[fid]))
  ELSE Ret(s, "open", NilTUDB)

GetSymbolsTUDB(s, fid, now) ==
  IF fid \notin DOMAIN s.TUDBs
  THEN Ret(s, "File not in DB", NilTUDB)
  ELSE IF s.TUDBs[fid].tudb # NilTUDB
  THEN Ret([s EXCEPT !.TUDBs[fid].accTime = now], "", s.TUDBs[fid].tudb)
  ELSE Only({ Ret([s EXCEPT !.TUDBs[fid].accTime = now, !.TUDBs[fid].tudb = l.val],
                  l.err, l.val)
              : l \in {LoadSymbolsTUDBFromSha1(s, fid)} })

\* variant: the header record is kept when its last includer goes
removeFileFromHeader_keepsEmpty(s, headerID, fid, now) ==
  Only({ IF g.err # "" THEN Fail(g)
         ELSE Ret([g.s EXCEPT !.TUDBs[headerID].tudb.Includers = @ \ {fid},
                              !.TUDBs[headerID].dirty = TRUE], "", {})
         : g \in {GetSymbolsTUDB(s, headerID, now)} })

removeFileFromHeader(s, headerID, fid, now) ==
  Only({ IF g.err # "" THEN Fail(g)
         ELSE IF g.val.Includers \ {fid} = {}
         THEN Ret([TUDBs |-> MapDel(g.s.TUDBs, headerID),
                   disk |-> MapDel(g.s.disk, headerID),
                   index |-> g.s.index], "", {})
         ELSE Ret([g.s EXCEPT !.TUDBs[headerID].tudb.Includers = @ \ {fid},
                              !.TUDBs[headerID].dirty = TRUE], "", {})
         : g \in {GetSymbolsTUDB(s, headerID, now)} })

\* the loop of RemoveFileReferences over tudb.Headers, in the order hs
RECURSIVE removeFromHeaders(_, _, _, _)
removeFromHeaders(s, hs, fid, now) ==
  IF hs = <<>> THEN Ret(s, "", {})
  ELSE Only({ IF r.err # "" THEN Fail(r)
              ELSE removeFromHeaders(r.s, Tail(hs), fid, now)
              : r \in {removeFileFromHeader(s, Head(hs), fid, now)} })

\* RemoveFileReferences once the record g of the file is loaded
removeLoaded(g, file, ord, now) ==
  Only({ IF r.err # "" THEN Fail(r)
         ELSE Ret([TUDBs |-> MapDel(r.s.TUDBs, getStringEncode(file)),
                   disk |-> MapDel(r.s.disk, getStringEncode(file)),
                   index |-> r.s.index], "", {})
         : r \in {removeFromHeaders(g.s, InOrder(ord, DOMAIN g.val.Headers),
                                    getStringEncode(file), now)} })

RemoveFileReferences(s, file, ord, now) ==
  Only({ IF g.err # "" THEN Fail(g) ELSE removeLoaded(g, file, ord, now)
         : g \in {GetSymbolsTUDB(s, getStringEncode(file), now)} })

\* getListOfFilenames dereferences db.TUDBs[fid]: a missing slot is a nil
\* pointer dereference
getListOfFilenames(s, fileSet) ==
  IF \E fid \in fileSet : fid \notin DOMAIN s.TUDBs
  THEN Ret(s, "panic", {})
  ELSE Ret(s, "", {s.TUDBs[fid].Path : fid \in fileSet})

\* the loop of RemoveFileDepsReferences: the errors of the calls are dropped
RECURSIVE removeDeps(_, _, _, _)
removeDeps(s, deps, hord, now) ==
  IF deps = <<>> THEN s
  ELSE removeDeps(RemoveFileReferences(s, Head(deps), hord, now).s, Tail(deps), hord, now)

\* the slice getListOfFilenames returns, in the order ord of the map range
depsInOrder(s, fileSet, ord) ==
  [i \in 1..Len(InOrder(ord, fileSet)) |-> s.TUDBs[InOrder(ord, fileSet)[i]].Path]

PathOf(fid) ==
  CHOOSE p \in Paths \cup {nonExistingHeaderName(h) : h \in HFiles} : getStringEncode(p) = fid

\* RemoveFileDepsReferences once the record g of the header is loaded
removeDepsLoaded(g, cord, hord, now) ==
  Only({ IF l.err # "" THEN Fail(l)
         ELSE Ret(removeDeps(g.s, depsInOrder(g.s, g.val.Includers, cord), hord, now),
                  "", l.val)
         : l \in {getListOfFilenames(g.s, g.val.Includers)} })

RemoveFileDepsReferences(s, file, cord, hord, now) ==
  Only({ IF g.err # "" THEN Fail(g) ELSE removeDepsLoaded(g, cord, hord, now)
         : g \in {GetSymbolsTUDB(s, getStringEncode(file), now)} })

\* tudb.Headers[headerSha1]: the zero time when the key is missing
HeaderMtime(tudb, headerSha1) ==
  IF headerSha1 \in DOMAIN tudb.Headers THEN tudb.Headers[headerSha1] ELSE 0

\* the slot InsertTUDB makes for a header that has none, the includer added
NewHeaderCache(headerSha1, tudb, now) ==
  NewCache([newSymbolsTUDB(PathOf(headerSha1), HeaderMtime(tudb, headerSha1))
              EXCEPT !.Includers = {getStringEncode(tudb.File)}],
           HeaderMtime(tudb, headerSha1), PathOf(headerSha1), now, TRUE)

\* the loop of InsertTUDB over tudb.headersTUDB, in the order hs (of ids)
RECURSIVE addToHeaders(_, _, _, _)
addToHeaders(s, hs, tudb, now) ==
  IF hs = <<>> THEN Ret(s, "", {})
  ELSE IF Head(hs) \notin DOMAIN s.TUDBs
  THEN addToHeaders([s EXCEPT !.TUDBs = MapPut(@, Head(hs), NewHeaderCache(Head(hs), tudb, now))],
                    Tail(hs), tudb, now)
  ELSE Only({ IF g.err # "" THEN Fail(g)
              ELSE addToHeaders(
                     [g.s EXCEPT !.TUDBs[Head(hs)].tudb.Includers = @ \cup {getStringEncode(tudb.File)},
                                 !.TUDBs[Head(hs)].dirty = TRUE],
                     Tail(hs), tudb, now)
              : g \in {GetSymbolsTUDB(s, Head(hs), now)} })

\* the ids of tudb.headersTUDB
HeaderIDs(tudb) == {getStringEncode(h) : h \in tudb.headersTUDB}

\* the new slot and database file of a record once its temp file is renamed
Installed(s, tudb) ==
  [TUDBs |-> MapPut(s.TUDBs, getStringEncode(tudb.File),
                    NewCache(NilTUDB, tudb.Mtime, tudb.File, 0, FALSE)),
   disk |-> MapPut(s.disk, getStringEncode(tudb.File), SaveSymbolsTUDB(tudb)),
   index |-> s.index]

\* os.Rename of the temp file and the new slot; the rename fails when the
\* record has no temp file or the file system refuses (renameOK = FALSE)
renameTmpFile(s, tudb, renameOK) ==
  IF tudb.tmpFile = "" \/ ~renameOK THEN Ret(s, "rename", {})
  ELSE Ret(Installed(s, tudb), "", {})

\* InsertTUDB once the stored record is known not to be newer
insertReplace(s, tudb, ord1, ord2, now, renameOK) ==
  Only({ IF a.err # "" THEN Fail(a) ELSE renameTmpFile(a.s, tudb, renameOK)
         : a \in {addToHeaders(IF getStringEncode(tudb.File) \in DOMAIN s.TUDBs
                               THEN RemoveFileReferences(s, tudb.File, ord1, now).s
                               ELSE s,
                               InOrder(ord2, HeaderIDs(tudb)), tudb, now)} })

InsertTUDB(s, tudb, ord1, ord2, now, renameOK) ==
  IF getStringEncode(tudb.File) \in DOMAIN s.TUDBs
       /\ s.TUDBs[getStringEncode(tudb.File)].Mtime > tudb.Mtime
  THEN Ret(s, "panic", {})
  ELSE insertReplace(s, tudb, ord1, ord2, now, renameOK)

\* a variant that drops the record of a slot without writing it out
flushSlot_noSave(s, fid, saveFrom) ==
  IF s.TUDBs[fid].tudb = NilTUDB \/ s.TUDBs[fid].accTime > saveFrom THEN s
  ELSE [s EXCEPT !.TUDBs[fid].dirty = FALSE, !.TUDBs[fid].tudb = NilTUDB]

\* FlushDB on one slot: a loaded slot not accessed after saveFrom is written
\* out if dirty and unloaded; SaveSymbolsTUDB on a writable directory does
\* not fail
flushSlot(s, fid, saveFrom) ==
  IF s.TUDBs[fid].tudb = NilTUDB \/ s.TUDBs[fid].accTime > saveFrom THEN s
  ELSE [TUDBs |-> [s.TUDBs EXCEPT ![fid].dirty = FALSE, ![fid].tudb = NilTUDB],
        disk |-> IF s.TUDBs[fid].dirty
                 THEN MapPut(s.disk, getStringEncode(s.TUDBs[fid].Path),
                             SaveSymbolsTUDB(s.TUDBs[fid].tudb))
                 ELSE s.disk,
        index |-> s.index]

\* the loop of FlushDB over the slots in the order cs
RECURSIVE flushSlots(_, _, _)
flushSlots(s, cs, saveFrom) ==
  IF cs = <<>> THEN s
  ELSE flushSlots(flushSlot(s, Head(cs), saveFrom), Tail(cs), saveFrom)

\* saveSymbolsDBIndex: gob writes the exported fields of every slot
saveSymbolsDBIndex(s) ==
  [s EXCEPT !.index = [exist |-> TRUE,
                       TUDBs |-> [fid \in DOMAIN s.TUDBs |->
                                    [Mtime |-> s.TUDBs[fid].Mtime, Path |-> s.TUDBs[fid].Path]]]]

\* FlushDB ends by saving the index
FlushDB(s, saveFrom, ord) ==
  Ret(saveSymbolsDBIndex(flushSlots(s, InOrder(ord, DOMAIN s.TUDBs), saveFrom)), "", {})

\* newSymbolsDB on the directory that holds s.disk and s.index: without an
\* index file the store starts empty, else loadSymbolsDBIndex gives every
\* slot of the index with no decoded record
newSymbolsDB(s) ==
  [s EXCEPT !.TUDBs = IF s.index.exist
                      THEN [fid \in DOMAIN s.index.TUDBs |->
                              NewCache(NilTUDB, s.index.TUDBs[fid].Mtime,
                                       s.index.TUDBs[fid].Path, 0, FALSE)]
                      ELSE EmptyMap]

\* --------------------------------- the key/value store (symbols_db.go)
\* The backing store maps a file id to the gob bytes of its record.  One
\* call is one Update or View transaction: its writes are applied together
\* when the transaction function returns nil and dropped when it returns an
\* error.
symbolsTUDBToBin(tudb) ==
  [File |-> tudb.File, Mtime |-> tudb.Mtime, Headers |-> tudb.Headers,
   Includers |-> tudb.Includers,
   SymLoc |-> tudb.SymLoc, SymData |-> tudb.SymData]

binToSymbolsTUDB(bin) ==
  [File |-> bin.File, Mtime |-> bin.Mtime, Headers |-> bin.Headers,
   Includers |-> bin.Includers, SymLoc |-> bin.SymLoc, SymData |-> bin.SymData,
   headersTUDB |-> {}, tmpFile |-> ""]

NewSymbolsTUDB(file, mtime) ==
  [File |-> file, Mtime |-> mtime, Headers |-> EmptyMap, Includers |-> {},
   SymLoc |-> EmptyMap, SymData |-> EmptyMap, headersTUDB |-> {}, tmpFile |-> ""]

\* getSymbolsTUDB(txn, fid) on the view b of the transaction
getSymbolsTUDB(b, fid) ==
  IF fid \in DOMAIN b
  THEN Ret(b, "", binToSymbolsTUDB(b[fid]))
  ELSE Ret(b, "ErrKeyNotFound", NilTUDB)

\* the record InsertTUDB edits for a header: the stored one, or a new one
\* when the key is not found
headerTUDB_kv(b, headerSha1, tudb) ==
  IF headerSha1 \in DOMAIN b
  THEN binToSymbolsTUDB(b[headerSha1])
  ELSE NewSymbolsTUDB(PathOf(headerSha1), HeaderMtime(tudb, headerSha1))

\* the body of the transaction of InsertTUDB: the loop over headersTUDB
RECURSIVE insertHeadersTxn(_, _, _)
insertHeadersTxn(b, hs, tudb) ==
  IF hs = <<>> THEN Ret(b, "", {})
  ELSE insertHeadersTxn(
         MapPut(b, Head(hs),
                symbolsTUDBToBin([headerTUDB_kv(b, Head(hs), tudb)
                                    EXCEPT !.Includers = @ \cup {getStringEncode(tudb.File)}])),
         Tail(hs), tudb)

InsertTUDB_kv(b, tudb, ord) ==
  Ret(MapPut(insertHeadersTxn(b, InOrder(ord, HeaderIDs(tudb)), tudb).s,
             getStringEncode(tudb.File), symbolsTUDBToBin(tudb)), "", {})

\* the body of the transaction of RemoveFileReferences: the loop over Headers
RECURSIVE removeHeadersTxn(_, _, _)
removeHeadersTxn(b, hs, fileSha1) ==
  IF hs = <<>> THEN Ret(b, "", {})
  ELSE Only({ IF g.err # "" THEN Fail(g)
              ELSE IF g.val.Includers \ {fileSha1} = {}
              THEN removeHeadersTxn(MapDel(b, Head(hs)), Tail(hs), fileSha1)
              ELSE removeHeadersTxn(
                     MapPut(b, Head(hs),
                            symbolsTUDBToBin([g.val EXCEPT !.Includers = @ \ {fileSha1}])),
                     Tail(hs), fileSha1)
              : g \in {getSymbolsTUDB(b, Head(hs))} })

\* the function RemoveFileReferences hands to retryUpdate, run on b
removeTxn(b, file, ord) ==
  Only({ IF g.err # "" THEN Fail(g)
         ELSE Only({ IF r.err # "" THEN Fail(r)
                     ELSE Ret(MapDel(r.s, getStringEncode(file)), "", {})
                     : r \in {removeHeadersTxn(b, InOrder(ord, DOMAIN g.val.Headers),
                                               getStringEncode(file))} })
         : g \in {getSymbolsTUDB(b, getStringEncode(file))} })

\* a transaction that returns an error is dropped: the store stays b
RemoveFileReferences_kv(b, file, ord) ==
  Only({ IF t.err # "" THEN Ret(b, t.err, {}) ELSE t
         : t \in {removeTxn(b, file, ord)} })

\* the header ids of the record stored under fid, none when there is no record
HeadersOf_kv(b, fid) == IF fid \in DOMAIN b THEN DOMAIN binToSymbolsTUDB(b[fid]).Headers ELSE {}

getListOfFilenames_kv(b, fileSet) ==
  IF \E fid \in fileSet : fid \notin DOMAIN b
  THEN Ret(b, "ErrKeyNotFound", {})
  ELSE Ret(b, "", {binToSymbolsTUDB(b[fid]).File : fid \in fileSet})

GetIncluders_kv(b, headPath) ==
  Only({ IF g.err # "" THEN Fail(g) ELSE getListOfFilenames_kv(b, g.val.Includers)
         : g \in {getSymbolsTUDB(b, getStringEncode(headPath))} })

\* ------------------------------- the earlier cached store (symbols-db.go)
\* Same state as the cached store.  A panic inside a nested call unwinds
\* through the callers that drop errors.
GetTUSymbolsDB(s, fileID, now) ==
  IF fileID \notin DOMAIN s.TUDBs
  THEN Ret(s, "File not in DB", NilTUDB)
  ELSE IF s.TUDBs[fileID].tudb # NilTUDB
  THEN Ret([s EXCEPT !.TUDBs[fileID].accTime = now], "", s.TUDBs[fileID].tudb)
  ELSE IF fileID \in DOMAIN s.disk
  THEN Ret([s EXCEPT !.TUDBs[fileID].accTime = now,
                     !.TUDBs[fileID].tudb = loadSymbolsTUDB(s.disk[fileID])], "",
           loadSymbolsTUDB(s.disk[fileID]))
  ELSE Ret([s EXCEPT !.TUDBs[fileID].accTime = now], "open", NilTUDB)

\* removeFileFromHeader of symbols-db.go loads the record of fileID, not of
\* headerID: it edits and tests the includers of the file being removed
removeFileFromHeader_old(s, headerID, fileID, now) ==
  Only({ IF g.err # "" THEN Fail(g)
         ELSE IF headerID \notin DOMAIN g.s.TUDBs THEN Ret(g.s, "panic", {})
         ELSE IF g.val.Includers \ {fileID} = {}
         THEN Ret([TUDBs |-> MapDel([g.s.TUDBs EXCEPT ![fileID].tudb.Includers = {}], headerID),
                   disk |-> MapDel(g.s.disk, headerID),
                   index |-> g.s.index], "", {})
         ELSE Ret([g.s EXCEPT !.TUDBs[fileID].tudb.Includers = @ \ {fileID},
                              !.TUDBs[headerID].dirty = TRUE], "", {})
         : g \in {GetTUSymbolsDB(s, fileID, now)} })

RECURSIVE removeFromHeaders_old(_, _, _, _)
removeFromHeaders_old(s, hs, fileID, now) ==
  IF hs = <<>> THEN Ret(s, "", {})
  ELSE Only({ IF r.err # "" THEN Fail(r)
              ELSE removeFromHeaders_old(r.s, Tail(hs), fileID, now)
              : r \in {removeFileFromHeader_old(s, Head(hs), fileID, now)} })

\* RemoveFileReferences once the record g of the file is loaded
removeLoaded_old(g, file, ord, now) ==
  Only({ IF r.err # "" THEN Fail(r)
         ELSE Ret([TUDBs |-> MapDel(r.s.TUDBs, getStringEncode(file)),
                   disk |-> MapDel(r.s.disk, getStringEncode(file)),
                   index |-> r.s.index], "", {})
         : r \in {removeFromHeaders_old(g.s, InOrder(ord, DOMAIN g.val.Headers),
                                        getStringEncode(file), now)} })

RemoveFileReferences_old(s, file, ord, now) ==
  Only({ IF g.err # "" THEN Fail(g) ELSE removeLoaded_old(g, file, ord, now)
         : g \in {GetTUSymbolsDB(s, getStringEncode(file), now)} })

\* the loop of RemoveFileDepsReferences: errors are dropped, a panic unwinds
RECURSIVE removeDeps_old(_, _, _, _)
removeDeps_old(s, deps, ord, now) ==
  IF deps = <<>> THEN Ret(s, "", {})
  ELSE Only({ IF r.err = "panic" THEN r
              ELSE removeDeps_old(r.s, Tail(deps), ord, now)
              : r \in {RemoveFileReferences_old(s, Head(deps), ord, now)} })

\* RemoveFileDepsReferences once the record g of the header is loaded
removeDepsLoaded_old(g, cord, hord, now) ==
  Only({ IF l.err # "" THEN Fail(l)
         ELSE Only({ IF r.err # "" THEN Fail(r) ELSE Ret(r.s, "", l.val)
                     : r \in {removeDeps_old(g.s, depsInOrder(g.s, g.val.Includers, cord),
                                             hord, now)} })
         : l \in {getListOfFilenames(g.s, g.val.Includers)} })

RemoveFileDepsReferences_old(s, file, cord, hord, now) ==
  Only({ IF g.err # "" THEN Fail(g) ELSE removeDepsLoaded_old(g, cord, hord, now)
         : g \in {GetTUSymbolsDB(s, getStringEncode(file), now)} })

\* the slot InsertTUDB makes for a header that has none: NewTUSymbolsDB
\* takes the mtime from the header's file
NewHeaderCache_old(headerSha1, tudb, mtime, now) ==
  NewCache([newSymbolsTUDB(PathOf(headerSha1), mtime)
              EXCEPT !.Includers = {getStringEncode(tudb.File)}],
           mtime, PathOf(headerSha1), now, TRUE)

\* NewTUSymbolsDB stats the header: stat[h] is its mtime on disk, 0 when
\* the file is missing
RECURSIVE addToHeaders_old(_, _, _, _, _)
addToHeaders_old(s, hs, tudb, stat, now) ==
  IF hs = <<>> THEN Ret(s, "", {})
  ELSE IF Head(hs) \notin DOMAIN s.TUDBs
  THEN IF stat[PathOf(Head(hs))] = 0 THEN Ret(s, "stat", {})
       ELSE addToHeaders_old(
              [s EXCEPT !.TUDBs = MapPut(@, Head(hs),
                                         NewHeaderCache_old(Head(hs), tudb, stat[PathOf(Head(hs))], now))],
              Tail(hs), tudb, stat, now)
  ELSE Only({ IF g.err # "" THEN Fail(g)
              ELSE addToHeaders_old(
                     [g.s EXCEPT !.TUDBs[Head(hs)].tudb.Includers = @ \cup {getStringEncode(tudb.File)},
                                 !.TUDBs[Head(hs)].dirty = TRUE],
                     Tail(hs), tudb, stat, now)
              : g \in {GetTUSymbolsDB(s, Head(hs), now)} })

\* the stored record saw a newer version of one of the headers
SawNewerHeader(odb, tudb) ==
  \E headSha1 \in DOMAIN tudb.Headers :
     (IF headSha1 \in DOMAIN odb.Headers THEN odb.Headers[headSha1] ELSE 0) > tudb.Headers[headSha1]

\* InsertTUDB from the loop over headersTUDB on, r the outcome of the
\* removal of the stored record
insertHeaders_old(r, tudb, ord2, stat, now) ==
  IF r.err = "panic" THEN r
  ELSE Only({ IF a.err # "" THEN Fail(a)
              ELSE IF tudb.tmpFile = "" THEN Ret(a.s, "rename", {})
              ELSE Ret(Installed(a.s, tudb), "", {})
              : a \in {addToHeaders_old(r.s, InOrder(ord2, HeaderIDs(tudb)), tudb, stat, now)} })

insertReplace_old(s, tudb, ord1, ord2, stat, now, replace) ==
  insertHeaders_old(IF replace THEN RemoveFileReferences_old(s, tudb.File, ord1, now)
                    ELSE Ret(s, "", {}),
                    tudb, ord2, stat, now)

\* an older record, or one of equal mtime that saw older headers, is dropped
\* silently: the temp file is removed and nil returned
InsertTUDB_old(s, tudb, ord1, ord2, stat, now) ==
  IF getStringEncode(tudb.File) \notin DOMAIN s.TUDBs
  THEN insertReplace_old(s, tudb, ord1, ord2, stat, now, FALSE)
  ELSE IF s.TUDBs[getStringEncode(tudb.File)].Mtime > tudb.Mtime THEN Ret(s, "", {})
  ELSE IF s.TUDBs[getStringEncode(tudb.File)].Mtime = tudb.Mtime
  THEN Only({ IF g.err # "" THEN Fail(g)
              ELSE IF SawNewerHeader(g.val, tudb) THEN Ret(g.s, "", {})
              ELSE insertReplace_old(g.s, tudb, ord1, ord2, stat, now, TRUE)
              : g \in {GetTUSymbolsDB(s, getStringEncode(tudb.File), now)} })
  ELSE insertReplace_old(s, tudb, ord1, ord2, stat, now, TRUE)

\* ------------------------------------------------------------ the machine
\* impl   which generation of the store the run exercises (fixed by Init)
\* db     the cached store: the TUDBs map and the database directory
\* backing the key/value store
\* clock  time.Now(): every call on the store is made at a later time
\* call   the last call made on the store: operation, argument, outcome and
\*        the ids whose records the call deleted
\* work, done, runs, txn, ts, commitTs, errs   the two goroutines of
\*        TestAddRemoveConcurrently (their calls, how many returned, how many
\*        times Update ran) and the transactions of the backing store
VARIABLES impl, db, backing, clock, call, work, done, runs, txn, ts, commitTs, errs, tu
\* the completed parses on their way to the reconcile step
VARIABLES doneTUR
\* the files handler (files.go): the disk, the tables of the writer's
\* connection, the channels files and writer, the goroutines, the watcher's
\* events, the set notExplored of StartFilesHandler, the paths the walk has
\* visited and the panic that ended the process
VARIABLES fsys, wdb, files, writer, task, events, notExplored, reported, crash
engVars == <<fsys, wdb, files, writer, task, events, notExplored, reported, crash>>
vars == <<impl, db, backing, clock, call, work, done, runs, txn, ts, commitTs, errs, tu, doneTUR, engVars>>
concVars == <<work, done, runs, txn, ts, commitTs, errs, tu, doneTUR, engVars>>

\* the files handler has not been started
EngineOff ==
  /\ fsys = EmptyMap /\ wdb = EmptyMap /\ files = <<>> /\ writer = <<>>
  /\ task = EmptyMap /\ events = <<>> /\ notExplored = {} /\ reported = {}
  /\ crash = "" /\ doneTUR = <<>>

Procs == {"inserter", "remover"}
\* no transaction open
NoTxn == [readTs |-> 0, reads |-> {}, writes |-> {}, after |-> EmptyMap, err |-> "none"]

Call(op, file, tudb, err, val, removed) ==
  [op |-> op, file |-> file, tudb |-> tudb, err |-> err, val |-> val, removed |-> removed]

\* a panic ends the process
\* no call follows a panic, nor a store that failed to open
Alive == call.err # "panic" /\ ~(call.op = "Restart" /\ call.err # "")

Init ==
  /\ impl \in {"cache", "old", "kv"}
  /\ db = EmptyStore
  /\ backing = EmptyMap
  /\ clock = 1
  /\ call = Call("", "", NilTUDB, "", {}, {})
  /\ tu = newSymbolsTUDB("a.c", 1)
  /\ EngineOff
  /\ work = [p \in Procs |-> <<>>]
  /\ done = [p \in Procs |-> 0]
  /\ runs = [p \in Procs |-> 0]
  /\ txn = [p \in Procs |-> NoTxn]
  /\ ts = 0
  /\ commitTs = EmptyMap
  /\ errs = {}

\* the record GetSymbolsTUDB finds for fid: the cached one, else the one on disk
StoredTUDB(s, fid) ==
  IF fid \notin DOMAIN s.TUDBs THEN NilTUDB
  ELSE IF s.TUDBs[fid].tudb # NilTUDB THEN s.TUDBs[fid].tudb
  ELSE IF fid \in DOMAIN s.disk THEN loadSymbolsTUDB(s.disk[fid])
  ELSE NilTUDB

\* the orders in which the loops of a call can range over their maps
HeaderOrders(tudb) == Perms(DOMAIN tudb.Headers)
IncluderOrders(tudb) == Perms(tudb.Includers)
SlotOrders(s) == {CHOOSE o \in Perms(DOMAIN s.TUDBs) : TRUE}

\* --- part_007
CacheInsertTUDB ==
  /\ Alive /\ clock < MaxClock /\ impl = "cache"
  /\ \E tudb \in ParsedTUDBs :
     \E ord1 \in HeaderOrders(StoredTUDB(db, getStringEncode(tudb.File))), ord2 \in HeaderOrders(tudb) :
       \E r \in {InsertTUDB(db, tudb, ord1, ord2, clock, TRUE)} :
          /\ db' = r.s
          /\ call' = Call("InsertTUDB", tudb.File, tudb, r.err, {},
                          DOMAIN db.TUDBs \ DOMAIN r.s.TUDBs)
  /\ clock' = clock + 1 /\ UNCHANGED <<impl, backing>> /\ UNCHANGED concVars

\* the same call when the rename of the temp file fails
CacheInsertTUDBRenameFails ==
  /\ Alive /\ clock < MaxClock /\ impl = "cache"
  /\ \E tudb \in ParsedTUDBs :
     \E ord1 \in HeaderOrders(StoredTUDB(db, getStringEncode(tudb.File))), ord2 \in HeaderOrders(tudb) :
       \E r \in {InsertTUDB(db, tudb, ord1, ord2, clock, FALSE)} :
          /\ db' = r.s
          /\ call' = Call("InsertTUDB", tudb.File, tudb, r.err, {},
                          DOMAIN db.TUDBs \ DOMAIN r.s.TUDBs)
  /\ clock' = clock + 1 /\ UNCHANGED <<impl, backing>> /\ UNCHANGED concVars

CacheRemoveFileReferences ==
  /\ Alive /\ clock < MaxClock /\ impl = "cache"
  /\ \E file \in Paths :
     \E ord \in HeaderOrders(StoredTUDB(db, getStringEncode(file))) :
       \E r \in {RemoveFileReferences(db, file, ord, clock)} :
          /\ db' = r.s
          /\ call' = Call("RemoveFileReferences", file, NilTUDB, r.err, {},
                          DOMAIN db.TUDBs \ DOMAIN r.s.TUDBs)
  /\ clock' = clock + 1 /\ UNCHANGED <<impl, backing>> /\ UNCHANGED concVars

CacheRemoveFileDepsReferences ==
  /\ Alive /\ clock < MaxClock /\ impl = "cache"
  /\ \E file \in Paths, hord \in HOrders :
     \E cord \in IncluderOrders(StoredTUDB(db, getStringEncode(file))) :
       \E r \in {RemoveFileDepsReferences(db, file, cord, hord, clock)} :
          /\ db' = r.s
          /\ call' = Call("RemoveFileDepsReferences", file, NilTUDB, r.err, r.val,
                          DOMAIN db.TUDBs \ DOMAIN r.s.TUDBs)
  /\ clock' = clock + 1 /\ UNCHANGED <<impl, backing>> /\ UNCHANGED concVars

CacheFlushDB ==
  /\ Alive /\ clock < MaxClock /\ impl = "cache"
  /\ \E saveFrom \in 0..clock, ord \in SlotOrders(db) :
       \E r \in {FlushDB(db, saveFrom, ord)} :
          /\ db' = r.s
          /\ call' = Call("FlushDB", "", NilTUDB, r.err, {},
                          DOMAIN db.TUDBs \ DOMAIN r.s.TUDBs)
  /\ clock' = clock + 1 /\ UNCHANGED <<impl, backing>> /\ UNCHANGED concVars

\* --- symbols-db.go
\* os.Stat of a header at insertion: the header file is as the parse saw it
StatAsParsed(tudb) ==
  [h \in HFiles |-> IF getStringEncode(h) \in DOMAIN tudb.Headers
                    THEN tudb.Headers[getStringEncode(h)] ELSE 1]

OldInsertTUDB ==
  /\ Alive /\ clock < MaxClock /\ impl = "old"
  /\ \E tudb \in ParsedTUDBs :
     \E ord1 \in HeaderOrders(StoredTUDB(db, getStringEncode(tudb.File))), ord2 \in HeaderOrders(tudb) :
       \E r \in {InsertTUDB_old(db, tudb, ord1, ord2, StatAsParsed(tudb), clock)} :
          /\ db' = r.s
          /\ call' = Call("InsertTUDB", tudb.File, tudb, r.err, {},
                          DOMAIN db.TUDBs \ DOMAIN r.s.TUDBs)
  /\ clock' = clock + 1 /\ UNCHANGED <<impl, backing>> /\ UNCHANGED concVars

OldRemoveFileReferences ==
  /\ Alive /\ clock < MaxClock /\ impl = "old"
  /\ \E file \in Paths :
     \E ord \in HeaderOrders(StoredTUDB(db, getStringEncode(file))) :
       \E r \in {RemoveFileReferences_old(db, file, ord, clock)} :
          /\ db' = r.s
          /\ call' = Call("RemoveFileReferences", file, NilTUDB, r.err, {},
                          DOMAIN db.TUDBs \ DOMAIN r.s.TUDBs)
  /\ clock' = clock + 1 /\ UNCHANGED <<impl, backing>> /\ UNCHANGED concVars

OldRemoveFileDepsReferences ==
  /\ Alive /\ clock < MaxClock /\ impl = "old"
  /\ \E file \in Paths, hord \in HOrders :
     \E cord \in IncluderOrders(StoredTUDB(db, getStringEncode(file))) :
       \E r \in {RemoveFileDepsReferences_old(db, file, cord, hord, clock)} :
          /\ db' = r.s
          /\ call' = Call("RemoveFileDepsReferences", file, NilTUDB, r.err, r.val,
                          DOMAIN db.TUDBs \ DOMAIN r.s.TUDBs)
  /\ clock' = clock + 1 /\ UNCHANGED <<impl, backing>> /\ UNCHANGED concVars

OldFlushDB ==
  /\ Alive /\ clock < MaxClock /\ impl = "old"
  /\ \E saveFrom \in 0..clock, ord \in SlotOrders(db) :
       \E r \in {Ret(flushSlots(db, InOrder(ord, DOMAIN db.TUDBs), saveFrom), "", {})} :
          /\ db' = r.s
          /\ call' = Call("FlushDB", "", NilTUDB, r.err, {},
                          DOMAIN db.TUDBs \ DOMAIN r.s.TUDBs)
  /\ clock' = clock + 1 /\ UNCHANGED <<impl, backing>> /\ UNCHANGED concVars

\* --- symbols_db.go
KVInsertTUDB ==
  /\ Alive /\ clock < MaxClock /\ impl = "kv"
  /\ \E tudb \in ParsedTUDBs :
     \E ord \in HeaderOrders(tudb) :
       \E r \in {InsertTUDB_kv(backing, tudb, ord)} :
          /\ backing' = r.s
          /\ call' = Call("InsertTUDB", tudb.File, tudb, r.err, {},
                          DOMAIN backing \ DOMAIN r.s)
  /\ clock' = clock + 1 /\ UNCHANGED <<impl, db>> /\ UNCHANGED concVars

KVRemoveFileReferences ==
  /\ Alive /\ clock < MaxClock /\ impl = "kv"
  /\ \E file \in Paths :
     \E ord \in HeaderOrders(getSymbolsTUDB(backing, getStringEncode(file)).val) :
       \E r \in {RemoveFileReferences_kv(backing, file, ord)} :
          /\ backing' = r.s
          /\ call' = Call("RemoveFileReferences", file, NilTUDB, r.err, {},
                          DOMAIN backing \ DOMAIN r.s)
  /\ clock' = clock + 1 /\ UNCHANGED <<impl, db>> /\ UNCHANGED concVars

KVGetIncluders ==
  /\ Alive /\ clock < MaxClock /\ impl = "kv"
  /\ \E headPath \in Paths :
       \E r \in {GetIncluders_kv(backing, headPath)} :
          call' = Call("GetIncluders", headPath, NilTUDB, r.err, r.val,
                          {})
  /\ clock' = clock + 1 /\ UNCHANGED <<impl, db, backing>> /\ UNCHANGED concVars

Next ==
  \/ CacheInsertTUDB
  \/ CacheRemoveFileReferences
  \/ CacheRemoveFileDepsReferences
  \/ OldInsertTUDB
  \/ OldRemoveFileReferences
  \/ OldRemoveFileDepsReferences
  \/ KVInsertTUDB
  \/ KVRemoveFileReferences
  \/ KVGetIncluders

Spec == Init /\ [][Next]_vars

\* insertions and removals on the stores that replace a record in place,
\* on a file system that can refuse the rename
InitFault == Init /\ impl \in {"cache", "kv"}

\* the cached store alone
InitCache == Init /\ impl = "cache"

NextFault ==
  \/ CacheInsertTUDB
  \/ CacheInsertTUDBRenameFails
  \/ CacheRemoveFileReferences
  \/ KVInsertTUDB
  \/ KVRemoveFileReferences

SpecFault == InitFault /\ [][NextFault]_vars

\* --- parses with includes that resolve to no file
CacheInsertPhantomTUDB ==
  /\ Alive /\ clock < MaxClock /\ impl = "cache"
  /\ \E tudb \in PhantomTUDBs :
     \E ord1 \in HeaderOrders(StoredTUDB(db, getStringEncode(tudb.File))), ord2 \in HeaderOrders(tudb) :
       \E r \in {InsertTUDB(db, tudb, ord1, ord2, clock, TRUE)} :
          /\ db' = r.s
          /\ call' = Call("InsertTUDB", tudb.File, tudb, r.err, {},
                          DOMAIN db.TUDBs \ DOMAIN r.s.TUDBs)
  /\ clock' = clock + 1 /\ UNCHANGED <<impl, backing>> /\ UNCHANGED concVars

KVInsertPhantomTUDB ==
  /\ Alive /\ clock < MaxClock /\ impl = "kv"
  /\ \E tudb \in PhantomTUDBs :
     \E ord \in HeaderOrders(tudb) :
       \E r \in {InsertTUDB_kv(backing, tudb, ord)} :
          /\ backing' = r.s
          /\ call' = Call("InsertTUDB", tudb.File, tudb, r.err, {},
                          DOMAIN backing \ DOMAIN r.s)
  /\ clock' = clock + 1 /\ UNCHANGED <<impl, db>> /\ UNCHANGED concVars

NextPhantom ==
  \/ CacheInsertPhantomTUDB
  \/ CacheRemoveFileReferences
  \/ KVInsertPhantomTUDB
  \/ KVRemoveFileReferences

SpecPhantom == InitFault /\ [][NextPhantom]_vars

\* NewSymbolsDB (symbols_db.go): os.Mkdir fails on a directory that exists
NewSymbolsDB(b, dirExists) ==
  IF dirExists THEN Ret(b, "mkdir: file exists", {}) ELSE Ret(b, "", {})

\* the daemon stops and starts again on the same directory: the shutdown
\* flushes with the current time as saveFrom, the start opens the store
CacheRestart ==
  /\ Alive /\ clock < MaxClock /\ impl = "cache"
  /\ \E ord \in SlotOrders(db) :
       \E r \in {FlushDB(db, clock, ord)} :
          /\ db' = newSymbolsDB(r.s)
          /\ call' = Call("Restart", "", NilTUDB, r.err, {}, {})
  /\ clock' = clock + 1 /\ UNCHANGED <<impl, backing>> /\ UNCHANGED concVars

\* Close keeps the directory of the backing store, so it exists at the start
KVRestart ==
  /\ Alive /\ clock < MaxClock /\ impl = "kv"
  /\ \E r \in {NewSymbolsDB(backing, TRUE)} :
       /\ backing' = r.s
       /\ call' = Call("Restart", "", NilTUDB, r.err, {}, {})
  /\ clock' = clock + 1 /\ UNCHANGED <<impl, db>> /\ UNCHANGED concVars

NextRestart ==
  \/ CacheInsertTUDB \/ CacheRemoveFileReferences \/ CacheRemoveFileDepsReferences
  \/ CacheFlushDB \/ CacheRestart
  \/ KVInsertTUDB \/ KVRemoveFileReferences \/ KVRestart

SpecRestart == InitFault /\ [][NextRestart]_vars

\* the parse of a.c filling its record tu: one call for every cursor
TUInsertSymbolDecl ==
  /\ clock < MaxClock
  /\ \E sym \in SymbolInfos : tu' = insertSymbolDeclWithDef(tu, sym, NilSym)
  /\ clock' = clock + 1
  /\ UNCHANGED <<impl, db, backing, call, work, done, runs, txn, ts, commitTs, errs, engVars, doneTUR>>

TUInsertSymbolDeclWithDef ==
  /\ clock < MaxClock
  /\ \E sym \in SymbolInfos, def \in SymbolInfos :
       /\ def.usr = sym.usr
       /\ tu' = insertSymbolDeclWithDef(tu, sym, def)
  /\ clock' = clock + 1
  /\ UNCHANGED <<impl, db, backing, call, work, done, runs, txn, ts, commitTs, errs, engVars, doneTUR>>

TUInsertSymbolUse ==
  /\ clock < MaxClock
  /\ \E sym \in SymbolInfos, dec \in SymbolInfos \cup {NilSym}, funcCall \in BOOLEAN :
       tu' = InsertSymbolUse(tu, sym, dec, funcCall)
  /\ clock' = clock + 1
  /\ UNCHANGED <<impl, db, backing, call, work, done, runs, txn, ts, commitTs, errs, engVars, doneTUR>>

NextSym == TUInsertSymbolDecl \/ TUInsertSymbolDeclWithDef \/ TUInsertSymbolUse

SpecSym == InitFault /\ [][NextSym]_vars

\* a parse that reports uses only
SpecUse == InitFault /\ [][TUInsertSymbolUse]_vars

\* the same machine with the periodic flush of the cache
NextFlush == Next \/ CacheFlushDB \/ OldFlushDB

SpecFlush == Init /\ [][NextFlush]_vars

\* ------------------------------ concurrent callers of the key/value store
\* TestAddRemoveConcurrently: toRemove is inserted first, then one goroutine
\* inserts toInsert while the other removes toRemove.  The two lists hold
\* different files, each including any of the headers.
RemoveFiles == <<"a.c", "b.c">>
InsertFiles == <<"c.c", "d.c">>

TestTUDB(file, hs) ==
  TempSaveDB(InsertHeaders(NewSymbolsTUDB(file, 1), hs, [h \in HFiles |-> 1]))

\* insertTUDBs on one goroutine: one InsertTUDB after the other
RECURSIVE insertTUDBs(_, _)
insertTUDBs(b, tudbs) ==
  IF tudbs = <<>> THEN b
  ELSE insertTUDBs(InsertTUDB_kv(b, Head(tudbs), CHOOSE o \in HeaderOrders(Head(tudbs)) : TRUE).s,
                   Tail(tudbs))

InitConc ==
  /\ impl = "kv"
  /\ db = EmptyStore
  /\ clock = 1
  /\ call = Call("", "", NilTUDB, "", {}, {})
  /\ tu = newSymbolsTUDB("a.c", 1)
  /\ EngineOff
  /\ \E hs \in [{"a.c", "b.c", "c.c", "d.c"} -> SUBSET HFiles] :
       /\ work = [p \in Procs |->
                    IF p = "inserter"
                    THEN [i \in 1..Len(InsertFiles) |->
                            [op |-> "InsertTUDB", tudb |-> TestTUDB(InsertFiles[i], hs[InsertFiles[i]])]]
                    ELSE [i \in 1..Len(RemoveFiles) |->
                            [op |-> "RemoveFileReferences",
                             tudb |-> TestTUDB(RemoveFiles[i], hs[RemoveFiles[i]])]]]
       /\ backing = insertTUDBs(EmptyMap, [i \in 1..Len(RemoveFiles) |->
                                             TestTUDB(RemoveFiles[i], hs[RemoveFiles[i]])])
  /\ done = [p \in Procs |-> 0]
  /\ runs = [p \in Procs |-> 0]
  /\ txn = [p \in Procs |-> NoTxn]
  /\ ts = 0
  /\ commitTs = EmptyMap
  /\ errs = {}

\* the keys the transaction function of a call reads (Get) and writes (Set,
\* Delete) when run on the snapshot b
TxnReads(item, b) ==
  IF item.op = "InsertTUDB" THEN DOMAIN item.tudb.Headers
  ELSE {getStringEncode(item.tudb.File)} \cup HeadersOf_kv(b, getStringEncode(item.tudb.File))
TxnWrites(item, b) ==
  IF item.op = "InsertTUDB" THEN {getStringEncode(item.tudb.File)} \cup DOMAIN item.tudb.Headers
  ELSE {getStringEncode(item.tudb.File)} \cup HeadersOf_kv(b, getStringEncode(item.tudb.File))
TxnRun(item, b, ord) ==
  IF item.op = "InsertTUDB" THEN InsertTUDB_kv(b, item.tudb, ord)
  ELSE RemoveFileReferences_kv(b, item.tudb.File, ord)

\* the commit timestamp of a key, 0 when never committed by a transaction
CommitTsOf(k) == IF k \in DOMAIN commitTs THEN commitTs[k] ELSE 0

\* a key the transaction read was committed after the transaction began
HasConflict(t) == \E k \in t.reads : CommitTsOf(k) > t.readTs

\* variant: the outcome of the first Update is returned
retryUpdate_once(err) == "return"

\* retryUpdate: the loop runs Update again on ErrConflict and returns any
\* other outcome
retryUpdate(err) == IF err = "ErrConflict" THEN "again" ELSE "return"

\* Update starts a transaction on the current snapshot and runs the
\* function of the next call of goroutine p on it
TxnBegin ==
  \E p \in Procs :
    /\ txn[p] = NoTxn /\ done[p] < Len(work[p])
    /\ \E item \in {work[p][done[p] + 1]} :
          \E ord \in HeaderOrders(item.tudb) :
            \E r \in {TxnRun(item, backing, ord)} :
               txn' = [txn EXCEPT ![p] = [readTs |-> ts, reads |-> TxnReads(item, backing),
                                          writes |-> TxnWrites(item, backing),
                                          after |-> r.s, err |-> r.err]]
    /\ runs' = [runs EXCEPT ![p] = @ + 1]
    /\ UNCHANGED <<impl, db, backing, clock, call, work, done, ts, commitTs, errs, tu, engVars, doneTUR>>

\* the function returned and no key it read has been committed since: an
\* error of the function discards the writes and is returned, otherwise the
\* writes are committed
TxnCommit ==
  \E p \in Procs :
    /\ txn[p] # NoTxn /\ ~HasConflict(txn[p])
    /\ txn' = [txn EXCEPT ![p] = NoTxn]
    /\ done' = [done EXCEPT ![p] = @ + 1]
    /\ IF txn[p].err # ""
       THEN /\ errs' = errs \cup {<<p, txn[p].err>>}
            /\ UNCHANGED <<backing, ts, commitTs>>
       ELSE /\ backing' = [k \in (DOMAIN backing \ txn[p].writes)
                                   \cup (txn[p].writes \cap DOMAIN txn[p].after) |->
                             IF k \in txn[p].writes THEN txn[p].after[k] ELSE backing[k]]
            /\ ts' = ts + 1
            /\ commitTs' = [k \in DOMAIN commitTs \cup txn[p].writes |->
                              IF k \in txn[p].writes THEN ts + 1 ELSE commitTs[k]]
            /\ UNCHANGED errs
    /\ UNCHANGED <<impl, db, clock, call, work, runs, tu, engVars, doneTUR>>

\* a key the function read has been committed since: Update returns
\* ErrConflict and retryUpdate decides
TxnConflict ==
  \E p \in Procs :
    /\ txn[p] # NoTxn /\ HasConflict(txn[p])
    /\ txn' = [txn EXCEPT ![p] = NoTxn]
    /\ IF retryUpdate("ErrConflict") = "again"
       THEN UNCHANGED <<done, errs>>
       ELSE /\ done' = [done EXCEPT ![p] = @ + 1]
            /\ errs' = errs \cup {<<p, "ErrConflict">>}
    /\ UNCHANGED <<impl, db, backing, clock, call, work, runs, ts, commitTs, tu, engVars, doneTUR>>

NextConc == TxnBegin \/ TxnCommit \/ TxnConflict

SpecConc == InitConc /\ [][NextConc]_vars

\* --------------------------------------------------- the store as observed
\* the ids that have a record, and the record a lookup of fid returns
StoredIDs == IF impl = "kv" THEN DOMAIN backing ELSE DOMAIN db.TUDBs
RecordOf(fid) == IF impl = "kv" THEN binToSymbolsTUDB(backing[fid]) ELSE StoredTUDB(db, fid)
\* the mtime the store holds for fid (UptodateFile reads it), 0 when none
MtimeOf(fid) ==
  IF fid \notin StoredIDs THEN 0
  ELSE IF impl = "kv" THEN binToSymbolsTUDB(backing[fid]).Mtime
  ELSE db.TUDBs[fid].Mtime
HeadersOf(fid) == IF fid \in StoredIDs THEN DOMAIN RecordOf(fid).Headers ELSE {}
IncludersOf(fid) == IF fid \in StoredIDs THEN RecordOf(fid).Includers ELSE {}

\* what a store holds: for every id its mtime, header ids and includers
CacheView(s) ==
  [fid \in DOMAIN s.TUDBs |->
     [Mtime |-> s.TUDBs[fid].Mtime, Headers |-> StoredTUDB(s, fid).Headers,
      Includers |-> StoredTUDB(s, fid).Includers]]
KVView(b) ==
  [fid \in DOMAIN b |->
     [Mtime |-> binToSymbolsTUDB(b[fid]).Mtime, Headers |-> binToSymbolsTUDB(b[fid]).Headers,
      Includers |-> binToSymbolsTUDB(b[fid]).Includers]]
View == IF impl = "kv" THEN KVView(backing) ELSE CacheView(db)

\* -------------------------------------------------- queries on the store
\* os.Stat(file): stat is the mtime of the file on disk, 0 when the file is
\* missing.  The value of UptodateFile is the pair (exist, uptodate).
Uptodate(exist, uptodate) == [exist |-> exist, uptodate |-> uptodate]

\* variant: a record as old as the file is not current
UptodateFile_strict(s, file, stat) ==
  IF stat = 0 THEN Ret(s, "stat", Uptodate(FALSE, FALSE))
  ELSE IF getStringEncode(file) \notin DOMAIN s.TUDBs THEN Ret(s, "", Uptodate(FALSE, FALSE))
  ELSE Ret(s, "", Uptodate(TRUE, s.TUDBs[getStringEncode(file)].Mtime > stat))

\* UptodateFile of the cached store reads the mtime of the slot
UptodateFile(s, file, stat) ==
  IF stat = 0 THEN Ret(s, "stat", Uptodate(FALSE, FALSE))
  ELSE IF getStringEncode(file) \notin DOMAIN s.TUDBs THEN Ret(s, "", Uptodate(FALSE, FALSE))
  ELSE IF s.TUDBs[getStringEncode(file)].Mtime < stat THEN Ret(s, "", Uptodate(TRUE, FALSE))
  ELSE Ret(s, "", Uptodate(TRUE, TRUE))

\* bytes that are not a gob stream (a database file cut short, a damaged
\* value): the decoders return an error for them
TruncatedBin ==
  [File |-> "", Mtime |-> 0, Headers |-> EmptyMap, Includers |-> {},
   SymLoc |-> EmptyMap, SymData |-> EmptyMap]

\* UptodateFile of the key/value store decodes the record; exist is set
\* before the decoding, whose error is returned
UptodateFile_kv(b, file, stat) ==
  IF stat = 0 THEN Ret(b, "stat", Uptodate(FALSE, FALSE))
  ELSE IF getStringEncode(file) \notin DOMAIN b THEN Ret(b, "", Uptodate(FALSE, FALSE))
  ELSE IF b[getStringEncode(file)] = TruncatedBin THEN Ret(b, "decode", Uptodate(TRUE, FALSE))
  ELSE Ret(b, "", Uptodate(TRUE, ~(binToSymbolsTUDB(b[getStringEncode(file)]).Mtime < stat)))

\* GetSetFilesInDB of the cached store: the paths of the slots with an mtime
GetSetFilesInDB(s) ==
  Ret(s, "", {s.TUDBs[fid].Path : fid \in {x \in DOMAIN s.TUDBs : s.TUDBs[x].Mtime # 0}})

\* GetSetFilesInDB of the key/value store: the files of the records with an
\* mtime
GetSetFilesInDB_kv(b) ==
  Ret(b, "", {binToSymbolsTUDB(b[fid]).File :
                fid \in {x \in DOMAIN b : binToSymbolsTUDB(b[x]).Mtime # 0}})

\* UptodateFile on the store of the run
UptodateFileOf(file, stat) ==
  IF impl = "kv" THEN UptodateFile_kv(backing, file, stat) ELSE UptodateFile(db, file, stat)

\* ----------------------------------------------- queries on the symbols
\* The records of a parse with its symbols: f is declared at line 1 of a.h
\* when the file includes a.h and at line 1 of the file when not, defined
\* nowhere, at line 2 of the file or in the header, and called or not at
\* line 3; g is declared at line 1 of b.h, called at line 2 of b.h and used
\* or not at line 4 of the file.
ParsedSymTUDBs ==
  LET Sym(n, file, line) ==
        [name |-> n, usr |-> "c:@F@" \o n, loc |-> [File |-> file, Line |-> line, Col |-> 1]]
      Decl(t, F, hs, def) ==
        insertSymbolDeclWithDef(t, Sym("f", IF "a.h" \in hs THEN "a.h" ELSE F, 1),
          IF def = "header" THEN Sym("f", IF "a.h" \in hs THEN "a.h" ELSE F, 1) ELSE NilSym)
      Def(t, F, def) ==
        IF def = "own" THEN insertSymbolDeclWithDef(t, Sym("f", F, 2), Sym("f", F, 2)) ELSE t
      Use(t, F, hs, use) ==
        IF use THEN InsertSymbolUse(t, Sym("f", F, 3),
                                    Sym("f", IF "a.h" \in hs THEN "a.h" ELSE F, 1), TRUE)
        ELSE t
      H(t) ==
        InsertSymbolUse(insertSymbolDeclWithDef(t, Sym("g", "b.h", 1), NilSym),
                        Sym("g", "b.h", 2), Sym("g", "b.h", 1), TRUE)
      G(t, F, hs, use) ==
        IF "b.h" \notin hs THEN t
        ELSE IF use THEN InsertSymbolUse(H(t), Sym("g", F, 4), Sym("g", "b.h", 1), FALSE)
        ELSE H(t)
  IN {TempSaveDB(G(Use(Def(Decl(InsertHeaders(newSymbolsTUDB(F, 1), hs, [h \in HFiles |-> 1]),
                                F, hs, def), F, def), F, hs, use), F, hs, use)) :
        F \in CFiles, hs \in SUBSET HFiles, def \in {"none", "own", "header"}, use \in BOOLEAN}

\* the locations a query may name
LocReqs ==
  {[File |-> F, Line |-> l, Col |-> 1] : F \in CFiles, l \in 1..4}
    \cup {[File |-> h, Line |-> l, Col |-> 1] : h \in HFiles, l \in 1..2}

\* the orders in which the range over the uses map lists the use locations
UseOrders ==
  {<<[File |-> 11, Line |-> 3, Col |-> 1], [File |-> 12, Line |-> 3, Col |-> 1],
     [File |-> 11, Line |-> 4, Col |-> 1], [File |-> 12, Line |-> 4, Col |-> 1],
     [File |-> 22, Line |-> 2, Col |-> 1]>>,
   <<[File |-> 22, Line |-> 2, Col |-> 1],
     [File |-> 12, Line |-> 4, Col |-> 1], [File |-> 11, Line |-> 4, Col |-> 1],
     [File |-> 12, Line |-> 3, Col |-> 1], [File |-> 11, Line |-> 3, Col |-> 1]>>}

\* getSymbolLocReq: a location whose file has no slot is left out; nil, the
\* result for no location, is the empty sequence
RECURSIVE getSymbolLocReq(_, _)
getSymbolLocReq(s, syms) ==
  IF syms = <<>> THEN <<>>
  ELSE (IF Head(syms).File \in DOMAIN s.TUDBs
        THEN <<[File |-> s.TUDBs[Head(syms).File].Path,
                Line |-> Head(syms).Line, Col |-> Head(syms).Col]>>
        ELSE <<>>) \o getSymbolLocReq(s, Tail(syms))

\* the first steps of the three queries: GetSymbolsTUDB of the file of loc
\* and, when that record has includers, getIncluder, which takes the first
\* includer in the order ord of the range and panics when it cannot be read.
\* The value is the record to read and the id fileSha1 of its file.
getIncluder(s, loc, ord, now) ==
  Only({ IF g.err # "" THEN Fail(g)
         ELSE IF g.val.Includers = {}
         THEN Ret(g.s, "", [tudb |-> g.val, fileSha1 |-> loc.File])
         ELSE Only({ IF i.err # "" THEN Ret(i.s, "panic", {})
                     ELSE Ret(i.s, "", [tudb |-> i.val, fileSha1 |-> getStringEncode(i.val.File)])
                     : i \in {GetSymbolsTUDB(g.s, Head(InOrder(ord, g.val.Includers)), now)} })
         : g \in {GetSymbolsTUDB(s, loc.File, now)} })

GetSymbolDecl(s, useReq, ord, now) ==
  Only({ IF c.err # "" THEN Fail(c)
         ELSE IF getSymbolLoc(useReq) \notin DOMAIN c.val.tudb.SymLoc
         THEN Ret(c.s, "Symbol use not found", {})
         ELSE Ret(c.s, "",
                  getSymbolLocReq(c.s, c.val.tudb.SymData[c.val.tudb.SymLoc[getSymbolLoc(useReq)]].Decls))
         : c \in {getIncluder(s, getSymbolLoc(useReq), ord, now)} })

\* the records the loops of GetSymbolUses and GetSymbolDef read, in order:
\* for every declaration outside fileSha1 the record of its file and then,
\* when that one can be read, its includers other than fileSha1
RECURSIVE otherIncluders(_, _, _, _, _)
otherIncluders(s, decls, fileSha1, ord, now) ==
  IF decls = <<>> THEN <<>>
  ELSE (IF Head(decls).File = fileSha1 THEN <<>>
        ELSE <<[fid |-> Head(decls).File, tu |-> FALSE]>> \o
             (IF GetSymbolsTUDB(s, Head(decls).File, now).err # "" THEN <<>>
              ELSE [i \in 1..Cardinality(GetSymbolsTUDB(s, Head(decls).File, now).val.Includers
                                           \ {fileSha1}) |->
                      [fid |-> InOrder(ord, GetSymbolsTUDB(s, Head(decls).File, now).val.Includers
                                              \ {fileSha1})[i],
                       tu |-> TRUE]]))
       \o otherIncluders(s, Tail(decls), fileSha1, ord, now)

\* the store after GetSymbolsTUDB on every record of vs
RECURSIVE touch(_, _, _)
touch(s, vs, now) ==
  IF vs = <<>> THEN s ELSE touch(GetSymbolsTUDB(s, Head(vs).fid, now).s, Tail(vs), now)

\* GetSymbolUses: id is the symbol at the location, vs the records of the
\* loops; the uses map is listed in the order useOrd
GetSymbolUses(s, useReq, ord, useOrd, now) ==
  Only({ IF c.err # "" THEN Fail(c)
         ELSE IF getSymbolLoc(useReq) \notin DOMAIN c.val.tudb.SymLoc
         THEN Ret(c.s, "Symbol use not found", {})
         ELSE Only({ Only({
                Ret(touch(c.s, vs, now), "",
                    getSymbolLocReq(c.s,
                      InOrder(useOrd,
                        {c.val.tudb.SymData[id].Uses[i].Loc :
                           i \in 1..Len(c.val.tudb.SymData[id].Uses)}
                        \cup UNION {{o.val.SymData[id].Uses[i].Loc :
                                       i \in 1..Len(o.val.SymData[id].Uses)} :
                                    o \in {x \in {GetSymbolsTUDB(c.s, vs[k].fid, now) :
                                                    k \in {j \in 1..Len(vs) : vs[j].tu}} :
                                             x.err = "" /\ id \in DOMAIN x.val.SymData}})))
                : vs \in {otherIncluders(c.s, c.val.tudb.SymData[id].Decls,
                                         c.val.fileSha1, ord, now)} })
              : id \in {c.val.tudb.SymLoc[getSymbolLoc(useReq)]} })
         : c \in {getIncluder(s, getSymbolLoc(useReq), ord, now)} })

\* getSymbolLocReq(...)[0]: indexing the nil result panics
GetSymbolDefAt(s, def) ==
  IF getSymbolLocReq(s, <<def>>) = <<>> THEN Ret(s, "panic", {})
  ELSE Ret(s, "", getSymbolLocReq(s, <<def>>)[1])

\* GetSymbolDef: id is the symbol at the location, vs the records of the
\* loops, hits the places in vs of the includers that hold a definition
GetSymbolDef(s, useReq, ord, now) ==
  Only({ IF c.err # "" THEN Fail(c)
         ELSE IF getSymbolLoc(useReq) \notin DOMAIN c.val.tudb.SymLoc
         THEN Ret(c.s, "Symbol use not found", {})
         ELSE Only({ Only({ Only({
                IF c.val.tudb.SymData[id].DefAvail
                THEN GetSymbolDefAt(c.s, c.val.tudb.SymData[id].Def)
                ELSE IF hits = {} THEN Ret(touch(c.s, vs, now), "Definition not found", {})
                ELSE Only({ GetSymbolDefAt(touch(c.s, SubSeq(vs, 1, k), now),
                                           GetSymbolsTUDB(c.s, vs[k].fid, now).val.SymData[id].Def)
                            : k \in {CHOOSE i \in hits : \A j \in hits : i <= j} })
                : hits \in {{k \in 1..Len(vs) :
                               /\ vs[k].tu
                               /\ GetSymbolsTUDB(c.s, vs[k].fid, now).err = ""
                               /\ id \in DOMAIN GetSymbolsTUDB(c.s, vs[k].fid, now).val.SymData
                               /\ GetSymbolsTUDB(c.s, vs[k].fid, now).val.SymData[id].DefAvail}} })
                : vs \in {otherIncluders(c.s, c.val.tudb.SymData[id].Decls,
                                         c.val.fileSha1, ord, now)} })
              : id \in {c.val.tudb.SymLoc[getSymbolLoc(useReq)]} })
         : c \in {getIncluder(s, getSymbolLoc(useReq), ord, now)} })

\* the cached store under parses with symbols and the three queries; the
\* value of a query's call is its request and its result
CacheInsertSymTUDB ==
  /\ Alive /\ clock < MaxClock /\ impl = "cache"
  /\ \E tudb \in ParsedSymTUDBs :
     \E ord1 \in HeaderOrders(StoredTUDB(db, getStringEncode(tudb.File))), ord2 \in HeaderOrders(tudb) :
       \E r \in {InsertTUDB(db, tudb, ord1, ord2, clock, TRUE)} :
          /\ db' = r.s
          /\ call' = Call("InsertTUDB", tudb.File, tudb, r.err, {},
                          DOMAIN db.TUDBs \ DOMAIN r.s.TUDBs)
  /\ clock' = clock + 1 /\ UNCHANGED <<impl, backing>> /\ UNCHANGED concVars

CacheGetSymbolDecl ==
  /\ Alive /\ clock < MaxClock /\ impl = "cache"
  /\ \E useReq \in LocReqs, ord \in Perms(CIDs) :
       \E r \in {GetSymbolDecl(db, useReq, ord, clock)} :
          /\ db' = r.s
          /\ call' = Call("GetSymbolDecl", useReq.File, NilTUDB, r.err, [req |-> useReq, res |-> r.val], {})
  /\ clock' = clock + 1 /\ UNCHANGED <<impl, backing>> /\ UNCHANGED concVars

CacheGetSymbolUses ==
  /\ Alive /\ clock < MaxClock /\ impl = "cache"
  /\ \E useReq \in LocReqs, ord \in Perms(CIDs), useOrd \in UseOrders :
       \E r \in {GetSymbolUses(db, useReq, ord, useOrd, clock)} :
          /\ db' = r.s
          /\ call' = Call("GetSymbolUses", useReq.File, NilTUDB, r.err, [req |-> useReq, res |-> r.val], {})
  /\ clock' = clock + 1 /\ UNCHANGED <<impl, backing>> /\ UNCHANGED concVars

CacheGetSymbolDef ==
  /\ Alive /\ clock < MaxClock /\ impl = "cache"
  /\ \E useReq \in LocReqs, ord \in Perms(CIDs) :
       \E r \in {GetSymbolDef(db, useReq, ord, clock)} :
          /\ db' = r.s
          /\ call' = Call("GetSymbolDef", useReq.File, NilTUDB, r.err, [req |-> useReq, res |-> r.val], {})
  /\ clock' = clock + 1 /\ UNCHANGED <<impl, backing>> /\ UNCHANGED concVars

NextQuery ==
  \/ CacheInsertSymTUDB
  \/ CacheRemoveFileReferences
  \/ CacheGetSymbolDecl
  \/ CacheGetSymbolUses
  \/ CacheGetSymbolDef

SpecQuery == InitCache /\ [][NextQuery]_vars

\* ------------------------------------------------- includers of a header
\* GetIncluders(headPath) of the cached store: stat is the mtime os.Stat
\* gives for headPath, 0 when the file is missing.  Without a record of the
\* path the record of the unresolved include of that name is taken, and
\* hmtime stays zero, which lists every includer.
GetIncluders(s, headPath, stat, ord, now) ==
  Only({ IF headID \notin DOMAIN s.TUDBs THEN Ret(s, "", {})
         ELSE Only({ IF g.err # "" THEN Fail(g)
                     ELSE IF headID = getStringEncode(headPath) /\ stat = 0
                     THEN getListOfFilenames(g.s, g.val.Includers)
                     ELSE Only({
                       IF \E i \in 1..Len(incs) : GetSymbolsTUDB(g.s, incs[i].fid, now).err # ""
                       THEN Ret(touch(g.s, incs, now), "open", {})
                       ELSE Ret(touch(g.s, incs, now), "",
                                {GetSymbolsTUDB(g.s, t, now).val.File :
                                   t \in {x \in g.val.Includers :
                                            \/ headID # getStringEncode(headPath)
                                            \/ headID \notin DOMAIN GetSymbolsTUDB(g.s, x, now).val.Headers
                                            \/ stat > GetSymbolsTUDB(g.s, x, now).val.Headers[headID]}})
                       : incs \in {[i \in 1..Cardinality(g.val.Includers) |->
                                      [fid |-> InOrder(ord, g.val.Includers)[i]]]} })
                     : g \in {GetSymbolsTUDB(s, headID, now)} })
         : headID \in {IF getStringEncode(headPath) \in DOMAIN s.TUDBs
                       THEN getStringEncode(headPath)
                       ELSE getStringEncode(nonExistingHeaderName(headPath))} })

\* the value of the call is the mtime of the header on disk and the result
CacheGetIncluders ==
  /\ Alive /\ clock < MaxClock /\ impl = "cache"
  /\ \E headPath \in HFiles, stat \in 0..MaxHMtime, ord \in Perms(CIDs) :
       \E r \in {GetIncluders(db, headPath, stat, ord, clock)} :
          /\ db' = r.s
          /\ call' = Call("GetIncluders", headPath, NilTUDB, r.err,
                          [req |-> stat, res |-> r.val], {})
  /\ clock' = clock + 1 /\ UNCHANGED <<impl, backing>> /\ UNCHANGED concVars

\* the cached store under parses with unresolved includes
NextIncluders ==
  \/ CacheInsertPhantomTUDB
  \/ CacheRemoveFileReferences
  \/ CacheGetIncluders

SpecIncluders == InitCache /\ [][NextIncluders]_vars

\* ------------------------------------------- the files handler (files.go)
\* The handler of the sqlite generation: StartFilesHandler starts
\* NIndexingThreads workers (processFile) and the watcher goroutine, walks
\* the index directory and reconciles the files table with it.  The channel
\* files carries the paths to parse; the channel writer carries the one
\* WriterDB, and a goroutine uses the connection only between taking it from
\* the channel and putting it back.

\* the index directory holds a.c, a.h and b.c; a.c includes a.h, b.c
\* includes a.h and a system header, which is outside the index directory
EngC == {"a.c", "b.c"}
EngH == {"a.h", "/usr/include/s.h"}
Includes(file) == IF file = "a.c" THEN <<"a.h">> ELSE <<"a.h", "/usr/include/s.h">>

\* regexp.MatchString(validCString, path) and (validHString, path), on the
\* paths of the model
validC(path) == path \in {"a.c", "b.c"}
validH(path) == path \in {"a.h", "/usr/include/s.h"}

\* a variant with an empty sysInclDir
isSysInclDir_none(path) == FALSE

\* isSysInclDir: strings.HasPrefix(path, "/usr/include/") or "/usr/lib/"
isSysInclDir(path) == path \in {"/usr/include/s.h"}

Workers == {"w" \o ToString(i) : i \in 1..NIndexingThreads}
Tasks == Workers \cup {"main", "watcher"}

\* a goroutine: where it is, the file and event it handles, what is left of
\* its loop (todo), the paths it has still to send on files (pend), whether
\* it holds the WriterDB (wr) and what its last check returned (ret)
NewTask(pc, todo) ==
  [pc |-> pc, file |-> "", op |-> "", todo |-> todo, pend |-> <<>>, wr |-> FALSE, ret |-> FALSE]

\* the tables files (path -> file_info) and files_deps (pairs <<file, head>>)
\* of a previous run that indexed the three files at mtime 1
IndexedDB ==
  [files |-> [p \in EngC \cup EngH |-> 1],
   deps |-> {<<"a.c", "a.h">>, <<"b.c", "a.h">>, <<"b.c", "/usr/include/s.h">>}]

\* WriterDB.UptodateFile: os.Stat, then the file_info bytes (here the mtime;
\* 0 is a missing file) are compared with the row of the path
UptodateFile_w_stale(d, stat, file) ==
  [exist |-> stat[file] # 0 /\ file \in DOMAIN d.files, uptodate |-> FALSE,
   fi |-> stat[file], err |-> stat[file] = 0]

UptodateFile_w(d, stat, file) ==
  [exist |-> stat[file] # 0 /\ file \in DOMAIN d.files,
   uptodate |-> stat[file] # 0 /\ file \in DOMAIN d.files /\ d.files[file] = stat[file],
   fi |-> stat[file], err |-> stat[file] = 0]

\* WriterDB.InsertFile; the callers insert a path that has no row
InsertFile(d, file, fi) == [d EXCEPT !.files = MapPut(@, file, fi)]

\* WriterDB.InsertDependency: INSERT OR IGNORE of the pair of ids of two
\* rows of files
InsertDependency(d, file, head) ==
  IF file \in DOMAIN d.files /\ head \in DOMAIN d.files
  THEN [d EXCEPT !.deps = @ \cup {<<file, head>>}] ELSE d

\* WriterDB.RemoveFileReferences: DELETE FROM files; the rows of files_deps
\* that name the file go with it (ON DELETE CASCADE)
RemoveFileReferences_w(d, file) ==
  [files |-> [p \in DOMAIN d.files \ {file} |-> d.files[p]],
   deps |-> {x \in d.deps : x[1] # file /\ x[2] # file}]

\* WriterDB.RemoveFileDepsReferences: the paths that depend on file, whose
\* rows are deleted
RemoveFileDepsReferences_w(d, file) ==
  [d |-> [files |-> [p \in DOMAIN d.files \ {x[1] : x \in {y \in d.deps : y[2] = file}} |-> d.files[p]],
          deps |-> {x \in d.deps : \A y \in d.deps : y[2] = file => (x[1] # y[1] /\ x[2] # y[1])}],
   deps |-> {x[1] : x \in {y \in d.deps : y[2] = file}}]

\* removeFileAndReparseDepends: the tables after the two removals and the
\* sends it makes on files, in the order ord of the query's rows
removeFileAndReparseDepends(d, file, ord) ==
  [d |-> RemoveFileReferences_w(RemoveFileDepsReferences_w(d, file).d, file),
   pend |-> InOrder(ord, RemoveFileDepsReferences_w(d, file).deps)]

\* the orders in which selectFileDeps can return the rows
DepOrders(d, file) == Perms(RemoveFileDepsReferences_w(d, file).deps)

storeVars == <<impl, db, backing, clock, call, work, done, runs, txn, ts, commitTs, errs, tu, doneTUR>>

\* StartFilesHandler up to the walk: the channels, the writer in its
\* channel, the workers and the watcher started, notExplored read from the
\* files table.  The disk and the table are those a previous run left.
InitEngine ==
  /\ impl = "sqlite" /\ db = EmptyStore /\ backing = EmptyMap /\ clock = 1
  /\ call = Call("", "", NilTUDB, "", {}, {}) /\ tu = NilTUDB
  /\ work = EmptyMap /\ done = EmptyMap /\ runs = EmptyMap /\ txn = EmptyMap
  /\ ts = 0 /\ commitTs = EmptyMap /\ errs = {} /\ doneTUR = <<>>
  /\ fsys \in {f \in [EngC \cup EngH -> 0..MaxMtime] : f["a.c"] = 1 /\ f["a.h"] # 0}
  /\ wdb \in {IndexedDB, [files |-> EmptyMap, deps |-> {}]}
  /\ files = [q |-> <<>>, closed |-> FALSE]
  /\ writer = [tok |-> TRUE, closed |-> FALSE]
  /\ task = [t \in Tasks |-> IF t = "main" THEN NewTask("walk", <<"a.c", "a.h", "b.c">>)
                             ELSE NewTask("idle", <<>>)]
  /\ events = [q |-> <<>>, n |-> 0, closed |-> FALSE]
  /\ notExplored = DOMAIN wdb.files
  /\ reported = {}
  /\ crash = ""

\* processFile: the receive from files; a closed and drained channel ends
\* the worker
processFile(w) ==
  /\ crash = "" /\ task[w].pc = "idle" /\ task[w].pend = <<>>
  /\ IF files.q # <<>>
     THEN /\ files' = [files EXCEPT !.q = Tail(@)]
          /\ task' = [task EXCEPT ![w].pc = "uptodateFile", ![w].file = Head(files.q)]
     ELSE /\ files.closed
          /\ task' = [task EXCEPT ![w].pc = "exit"]
          /\ UNCHANGED files
  /\ UNCHANGED <<fsys, wdb, writer, events, notExplored, reported, crash>>
  /\ UNCHANGED storeVars

\* a variant that uses the connection without taking it from the channel
uptodateFile_noWriter(w) ==
  /\ crash = "" /\ task[w].pc = "uptodateFile"
  /\ \E u \in {UptodateFile_w(wdb, fsys, task[w].file)} :
       IF u.err \/ (u.exist /\ u.uptodate)
       THEN /\ task' = [task EXCEPT ![w].pc = "idle", ![w].ret = TRUE]
            /\ UNCHANGED wdb
       ELSE /\ wdb' = InsertFile(RemoveFileReferences_w(wdb, task[w].file), task[w].file, u.fi)
            /\ task' = [task EXCEPT ![w].pc = "Parse", ![w].ret = FALSE,
                                    ![w].todo = Includes(task[w].file)]
  /\ UNCHANGED <<fsys, files, writer, events, notExplored, reported, crash>>
  /\ UNCHANGED storeVars

\* uptodateFile, called by processFile with the file it received: it takes
\* the writer, checks and registers the file and puts the writer back.  A
\* receive from the closed channel writer yields nil, and the call panics.
uptodateFile(w) ==
  /\ crash = "" /\ task[w].pc = "uptodateFile"
  /\ IF writer.closed
     THEN /\ crash' = "nil WriterDB"
          /\ UNCHANGED <<wdb, task>>
     ELSE /\ writer.tok
          /\ UNCHANGED crash
          /\ \E u \in {UptodateFile_w(wdb, fsys, task[w].file)} :
               IF u.err \/ (u.exist /\ u.uptodate)
               THEN /\ task' = [task EXCEPT ![w].pc = "idle", ![w].ret = TRUE]
                    /\ UNCHANGED wdb
               ELSE /\ wdb' = InsertFile(RemoveFileReferences_w(wdb, task[w].file), task[w].file, u.fi)
                    /\ task' = [task EXCEPT ![w].pc = "Parse", ![w].ret = FALSE,
                                            ![w].todo = Includes(task[w].file)]
  /\ UNCHANGED <<fsys, files, writer, events, notExplored, reported>>
  /\ UNCHANGED storeVars

\* the parse of the file (parser.Parse) calls UpdateDependency for each
\* include in turn and stops when it returns false.  In the stale case the
\* writer is held over the sends on files.
UpdateDependency(w) ==
  /\ crash = "" /\ task[w].pc = "Parse" /\ task[w].pend = <<>>
  /\ IF writer.closed
     THEN /\ crash' = "nil WriterDB"
          /\ UNCHANGED <<wdb, task, writer>>
     ELSE /\ writer.tok
          /\ UNCHANGED crash
          /\ \E u \in {UptodateFile_w(wdb, fsys, Head(task[w].todo))} :
               IF ~u.err /\ u.exist /\ ~u.uptodate
               THEN \E ord \in DepOrders(wdb, Head(task[w].todo)) :
                    \E r \in {removeFileAndReparseDepends(wdb, Head(task[w].todo), ord)} :
                      /\ wdb' = r.d
                      /\ writer' = [writer EXCEPT !.tok = FALSE]
                      /\ task' = [task EXCEPT ![w].pc = "idle", ![w].ret = FALSE, ![w].wr = TRUE,
                                              ![w].pend = r.pend \o <<task[w].file>>]
               ELSE /\ wdb' = IF u.err THEN wdb
                              ELSE InsertDependency(
                                     IF u.exist THEN wdb
                                     ELSE InsertFile(wdb, Head(task[w].todo), u.fi),
                                     task[w].file, Head(task[w].todo))
                    /\ task' = [task EXCEPT ![w].ret = TRUE, ![w].todo = Tail(@),
                                            ![w].pc = IF Tail(task[w].todo) = <<>> THEN "idle" ELSE @]
                    /\ UNCHANGED writer
  /\ UNCHANGED <<fsys, files, events, notExplored, reported>>
  /\ UNCHANGED storeVars

\* files <- path: blocks while the channel is full and panics when it is
\* closed.  After its last send the handler puts the writer it holds back.
SendFile(t) ==
  /\ crash = "" /\ task[t].pend # <<>>
  /\ IF files.closed
     THEN /\ crash' = "send on closed channel"
          /\ UNCHANGED <<files, task, writer>>
     ELSE /\ Len(files.q) < NIndexingThreads
          /\ files' = [files EXCEPT !.q = Append(@, Head(task[t].pend))]
          /\ task' = [task EXCEPT ![t].pend = Tail(@),
                                  ![t].wr = @ /\ Tail(task[t].pend) # <<>>]
          /\ writer' = [writer EXCEPT !.tok = @ \/ (task[t].wr /\ Tail(task[t].pend) = <<>>)]
          /\ UNCHANGED crash
  /\ UNCHANGED <<fsys, wdb, events, notExplored, reported>>
  /\ UNCHANGED storeVars

\* the watcher goroutine's receive and handleChange up to the call of
\* handleFileChange: an event whose path cannot be stat'ed is ignored
handleChange ==
  /\ crash = "" /\ task["watcher"].pc = "idle" /\ task["watcher"].pend = <<>>
  /\ IF events.q # <<>>
     THEN /\ events' = [events EXCEPT !.q = Tail(@)]
          /\ task' = IF fsys[Head(events.q).Name] = 0 THEN task
                     ELSE [task EXCEPT !["watcher"].pc = "handleFileChange",
                                       !["watcher"].file = Head(events.q).Name,
                                       !["watcher"].op = Head(events.q).Op]
     ELSE /\ events.closed
          /\ task' = [task EXCEPT !["watcher"].pc = "exit"]
          /\ UNCHANGED events
  /\ UNCHANGED <<fsys, wdb, files, writer, notExplored, reported, crash>>
  /\ UNCHANGED storeVars

\* handleFileChange: the writer is taken first and held to the return
handleFileChange ==
  /\ crash = "" /\ task["watcher"].pc = "handleFileChange"
  /\ IF writer.closed
     THEN /\ crash' = "nil WriterDB"
          /\ UNCHANGED <<wdb, task, writer>>
     ELSE /\ writer.tok
          /\ UNCHANGED crash
          /\ \E u \in {UptodateFile_w(wdb, fsys, task["watcher"].file)} :
             \E ord \in DepOrders(wdb, task["watcher"].file) :
             \E r \in {IF validC(task["watcher"].file)
                       THEN (IF task["watcher"].op \in {"Create", "Write"}
                             THEN [d |-> wdb, pend |-> <<task["watcher"].file>>]
                             ELSE [d |-> RemoveFileReferences_w(wdb, task["watcher"].file),
                                   pend |-> <<>>])
                       ELSE IF ~u.err /\ u.exist
                               /\ (\/ task["watcher"].op = "Write" /\ ~u.uptodate
                                   \/ task["watcher"].op \in {"Remove", "Rename"})
                       THEN removeFileAndReparseDepends(wdb, task["watcher"].file, ord)
                       ELSE [d |-> wdb, pend |-> <<>>]} :
               /\ wdb' = r.d
               /\ writer' = [writer EXCEPT !.tok = r.pend = <<>>]
               /\ task' = [task EXCEPT !["watcher"].pc = "idle", !["watcher"].pend = r.pend,
                                       !["watcher"].wr = r.pend # <<>>]
  /\ UNCHANGED <<fsys, files, events, notExplored, reported>>
  /\ UNCHANGED storeVars

\* the environment: a file of the index directory is written, removed (or
\* renamed away) or created, and the watcher is notified
FileChanged ==
  /\ crash = "" /\ events.n < MaxEvents
  /\ \E p \in {"a.c", "a.h"}, op \in {"Write", "Remove", "Create"} :
       /\ CASE op = "Write" -> fsys[p] \in 1..(MaxMtime - 1) /\ fsys' = [fsys EXCEPT ![p] = @ + 1]
            [] op = "Remove" -> fsys[p] # 0 /\ fsys' = [fsys EXCEPT ![p] = 0]
            [] op = "Create" -> fsys[p] = 0 /\ fsys' = [fsys EXCEPT ![p] = MaxMtime]
       /\ events' = [events EXCEPT !.n = @ + 1,
                                   !.q = IF events.closed THEN @ ELSE Append(@, [Name |-> p, Op |-> op])]
  /\ UNCHANGED <<wdb, files, writer, task, notExplored, reported, crash>>
  /\ UNCHANGED storeVars

\* visitorRest of StartFilesHandler for a path of notExplored, called with
\* the writer taken
visitorRest(d, stat, path, ord) ==
  IF UptodateFile_w(d, stat, path).err /\ ~UptodateFile_w(d, stat, path).uptodate
  THEN removeFileAndReparseDepends(d, path, ord)
  ELSE [d |-> d, pend |-> <<>>]

\* the walk of the index directory (traversePath with the visitors of
\* StartFilesHandler), one file at a time in the order of filepath.Walk
walk ==
  /\ crash = "" /\ task["main"].pc = "walk" /\ task["main"].pend = <<>>
  /\ IF task["main"].todo = <<>>
     THEN /\ task' = [task EXCEPT !["main"].pc = "unseen"]
          /\ UNCHANGED <<wdb, writer, notExplored, reported>>
     ELSE \E p \in {Head(task["main"].todo)} :
          IF fsys[p] = 0
          THEN /\ task' = [task EXCEPT !["main"].todo = Tail(@)]
               /\ UNCHANGED <<wdb, writer, notExplored, reported>>
          ELSE IF validC(p)
          THEN /\ notExplored' = notExplored \ {p}
               /\ reported' = reported \cup {p}
               /\ task' = [task EXCEPT !["main"].todo = Tail(@), !["main"].pend = <<p>>]
               /\ UNCHANGED <<wdb, writer>>
          ELSE IF p \notin notExplored
          THEN /\ reported' = reported \cup {p}
               /\ task' = [task EXCEPT !["main"].todo = Tail(@)]
               /\ UNCHANGED <<wdb, writer, notExplored>>
          ELSE /\ writer.tok
               /\ notExplored' = notExplored \ {p}
               /\ reported' = reported \cup {p}
               /\ \E ord \in DepOrders(wdb, p) :
                  \E r \in {visitorRest(wdb, fsys, p, ord)} :
                    /\ wdb' = r.d
                    /\ writer' = [writer EXCEPT !.tok = r.pend = <<>>]
                    /\ task' = [task EXCEPT !["main"].todo = Tail(@), !["main"].pend = r.pend,
                                            !["main"].wr = r.pend # <<>>]
  /\ UNCHANGED <<fsys, files, events, crash>>
  /\ UNCHANGED storeVars

\* the last loop of StartFilesHandler, over the paths left in notExplored
\* in any order: a path under a system include directory is visited as the
\* walk visits a header, every other path is removed
unseen ==
  /\ crash = "" /\ task["main"].pc = "unseen" /\ task["main"].pend = <<>>
  /\ IF notExplored = {}
     THEN /\ task' = [task EXCEPT !["main"].pc = "serve"]
          /\ UNCHANGED <<wdb, writer, notExplored>>
     ELSE /\ writer.tok
          /\ \E p \in notExplored :
             \E ord \in DepOrders(wdb, p) :
             \E r \in {IF isSysInclDir(p) THEN visitorRest(wdb, fsys, p, ord)
                       ELSE [d |-> RemoveFileReferences_w(wdb, p), pend |-> <<>>]} :
               /\ notExplored' = notExplored \ {p}
               /\ wdb' = r.d
               /\ writer' = [writer EXCEPT !.tok = r.pend = <<>>]
               /\ task' = [task EXCEPT !["main"].file = p, !["main"].pend = r.pend,
                                       !["main"].wr = r.pend # <<>>]
  /\ UNCHANGED <<fsys, files, events, reported, crash>>
  /\ UNCHANGED storeVars

\* CloseFilesHandler: close(files); then the writer is taken, closed and
\* its channel closed, and the watcher closed; then wg.Wait()
CloseFilesHandler ==
  /\ crash = "" /\ task["main"].pc \in {"serve", "closing", "wait"}
  /\ IF task["main"].pc = "serve"
     THEN /\ files' = [files EXCEPT !.closed = TRUE]
          /\ task' = [task EXCEPT !["main"].pc = "closing"]
          /\ UNCHANGED <<writer, events>>
     ELSE IF task["main"].pc = "closing"
     THEN /\ writer.tok
          /\ writer' = [tok |-> FALSE, closed |-> TRUE]
          /\ events' = [events EXCEPT !.q = <<>>, !.closed = TRUE]
          /\ task' = [task EXCEPT !["main"].pc = "wait"]
          /\ UNCHANGED files
     ELSE /\ \A t \in Tasks \ {"main"} : task[t].pc = "exit"
          /\ task' = [task EXCEPT !["main"].pc = "done"]
          /\ UNCHANGED <<files, writer, events>>
  /\ UNCHANGED <<fsys, wdb, notExplored, reported, crash>>
  /\ UNCHANGED storeVars

NextEngine ==
  \/ \E w \in Workers : processFile(w)
  \/ \E w \in Workers : uptodateFile(w)
  \/ \E w \in Workers : UpdateDependency(w)
  \/ \E t \in Tasks : SendFile(t)
  \/ handleChange
  \/ handleFileChange
  \/ FileChanged
  \/ walk
  \/ unseen
  \/ CloseFilesHandler

SpecEngine == InitEngine /\ [][NextEngine]_vars

\* the handler started on the tables of a previous run, all files of the
\* index directory on disk, with the goroutines scheduled fairly: a
\* goroutine that can take its next step takes it.  Changes of the files and
\* the shutdown are up to the environment.
InitIndexed == InitEngine /\ wdb = IndexedDB /\ fsys["b.c"] = 1

FairSpecEngine ==
  /\ InitIndexed /\ [][NextEngine]_vars
  /\ \A w \in Workers : WF_vars(processFile(w)) /\ WF_vars(uptodateFile(w)) /\ WF_vars(UpdateDependency(w))
  /\ \A t \in Tasks : WF_vars(SendFile(t))
  /\ WF_vars(handleChange) /\ WF_vars(handleFileChange) /\ WF_vars(walk) /\ WF_vars(unseen)

\* --------------------------- the reconcile step and the worker pool
\* The engine that hands completed parses to InsertTUDB: a file found by the
\* walker or named by a create or write event is put on the parse queue;
\* each worker reads a file from the queue, parses it into a new record
\* with the mtime the file has when the parse starts and publishes the
\* record on doneTUR; the reconcile task takes the records in the order they
\* were delivered and calls InsertTUDB of the cached store.
InitReconcile ==
  /\ impl = "cache" /\ db = EmptyStore /\ backing = EmptyMap /\ clock = 1
  /\ call = Call("", "", NilTUDB, "", {}, {}) /\ tu = NilTUDB
  /\ work = EmptyMap /\ done = EmptyMap /\ runs = EmptyMap /\ txn = EmptyMap
  /\ ts = 0 /\ commitTs = EmptyMap /\ errs = {} /\ doneTUR = <<>>
  /\ fsys = [p \in EngC |-> 1]
  /\ wdb = EmptyMap /\ writer = <<>> /\ notExplored = {} /\ reported = {} /\ crash = ""
  /\ files = [q |-> <<"a.c", "b.c">>, closed |-> FALSE]
  /\ task = [w \in Workers |-> [pc |-> "idle", tudb |-> NilTUDB]]
  /\ events = [q |-> <<>>, n |-> 0, closed |-> FALSE]

\* a create or write event of a C file: enqueue parse
enqueueParse ==
  /\ Alive /\ events.n < MaxEvents /\ Len(files.q) < NIndexingThreads
  /\ \E p \in EngC, op \in {"Create", "Write"} :
       /\ op = "Write" => fsys[p] < MaxMtime
       /\ fsys' = IF op = "Write" THEN [fsys EXCEPT ![p] = @ + 1] ELSE fsys
       /\ files' = [files EXCEPT !.q = Append(@, p)]
  /\ events' = [events EXCEPT !.n = @ + 1]
  /\ UNCHANGED <<wdb, writer, task, notExplored, reported, crash>>
  /\ UNCHANGED storeVars

\* a worker reads a file from the parse queue and starts its parse
workerParse(w) ==
  /\ Alive /\ task[w].pc = "idle" /\ files.q # <<>>
  /\ files' = [files EXCEPT !.q = Tail(@)]
  /\ task' = [task EXCEPT ![w] = [pc |-> "parsed",
                                   tudb |-> TempSaveDB(newSymbolsTUDB(Head(files.q),
                                                                     fsys[Head(files.q)]))]]
  /\ UNCHANGED <<fsys, wdb, writer, events, notExplored, reported, crash>>
  /\ UNCHANGED storeVars

\* a worker publishes its completed parse
workerPublish(w) ==
  /\ Alive /\ task[w].pc = "parsed" /\ Len(doneTUR) < NIndexingThreads
  /\ doneTUR' = Append(doneTUR, task[w].tudb)
  /\ task' = [task EXCEPT ![w] = [pc |-> "idle", tudb |-> NilTUDB]]
  /\ UNCHANGED <<impl, db, backing, clock, call, work, done, runs, txn, ts, commitTs, errs, tu>>
  /\ UNCHANGED <<fsys, wdb, files, writer, events, notExplored, reported, crash>>

\* the reconcile step for a parsed record: InsertTUDB
reconcile ==
  /\ Alive /\ doneTUR # <<>>
  /\ \E r \in {InsertTUDB(db, Head(doneTUR), <<>>, <<>>, clock, TRUE)} :
       /\ db' = r.s
       /\ call' = Call("InsertTUDB", Head(doneTUR).File, Head(doneTUR), r.err, {}, {})
  /\ doneTUR' = Tail(doneTUR)
  /\ clock' = clock + 1
  /\ UNCHANGED <<impl, backing, work, done, runs, txn, ts, commitTs, errs, tu>>
  /\ UNCHANGED engVars

NextReconcile ==
  \/ enqueueParse
  \/ \E w \in Workers : workerParse(w)
  \/ \E w \in Workers : workerPublish(w)
  \/ reconcile

SpecReconcile == InitReconcile /\ [][NextReconcile]_vars

\* ------------------------------------------ the cursors a parse may report
\* The parse of a.c calling the insert methods of its record with cursors
\* at any line and column the parser hands over (a SymbolLocReq holds ints):
\* an ordinary place, a zero line, a zero column, a negative line.  The last
\* call and its arguments are kept in call.
CursorLocs == {<<1, 1>>, <<0, 1>>, <<1, 0>>, <<-1, 1>>}

CursorInfos ==
  {[name |-> n, usr |-> "c:@F@" \o n, loc |-> [File |-> "a.c", Line |-> l[1], Col |-> l[2]]] :
     n \in {"f", "g"}, l \in CursorLocs}

ParseInsertSymbolDecl ==
  /\ clock < MaxClock
  /\ \E sym \in CursorInfos :
       /\ tu' = insertSymbolDeclWithDef(tu, sym, NilSym)
       /\ call' = Call("InsertSymbolDecl", "a.c", NilTUDB, "",
                       [sym |-> sym, dec |-> NilSym, funcCall |-> FALSE], {})
  /\ clock' = clock + 1
  /\ UNCHANGED <<impl, db, backing, work, done, runs, txn, ts, commitTs, errs, engVars, doneTUR>>

ParseInsertSymbolDeclWithDef ==
  /\ clock < MaxClock
  /\ \E sym \in CursorInfos, def \in CursorInfos :
       /\ def.usr = sym.usr
       /\ tu' = insertSymbolDeclWithDef(tu, sym, def)
       /\ call' = Call("InsertSymbolDeclWithDef", "a.c", NilTUDB, "",
                       [sym |-> sym, dec |-> def, funcCall |-> FALSE], {})
  /\ clock' = clock + 1
  /\ UNCHANGED <<impl, db, backing, work, done, runs, txn, ts, commitTs, errs, engVars, doneTUR>>

ParseInsertSymbolUse ==
  /\ clock < MaxClock
  /\ \E sym \in CursorInfos, dec \in CursorInfos \cup {NilSym}, funcCall \in BOOLEAN :
       /\ tu' = InsertSymbolUse(tu, sym, dec, funcCall)
       /\ call' = Call("InsertSymbolUse", "a.c", NilTUDB, "",
                       [sym |-> sym, dec |-> dec, funcCall |-> funcCall], {})
  /\ clock' = clock + 1
  /\ UNCHANGED <<impl, db, backing, work, done, runs, txn, ts, commitTs, errs, engVars, doneTUR>>

NextCursor == ParseInsertSymbolDecl \/ ParseInsertSymbolDeclWithDef \/ ParseInsertSymbolUse

SpecCursor == InitCache /\ [][NextCursor]_vars

\* ------------------------------------------------ damaged stored records
\* The stored bytes of the record of a C file become undecodable (the disk,
\* or a SaveSymbolsTUDB that was cut short, which truncates the file it
\* writes); the files handler then asks UptodateFile about files on disk.
DiskCorrupt ==
  /\ Alive /\ clock < MaxClock
  /\ \/ /\ impl = "cache"
        /\ \E fid \in DOMAIN db.disk \cap CIDs :
             db' = [db EXCEPT !.disk[fid] = TruncatedBin]
        /\ UNCHANGED backing
     \/ /\ impl = "kv"
        /\ \E fid \in DOMAIN backing \cap CIDs :
             backing' = [backing EXCEPT ![fid] = TruncatedBin]
        /\ UNCHANGED db
  /\ call' = Call("corrupt", "", NilTUDB, "", {}, {})
  /\ clock' = clock + 1 /\ UNCHANGED impl /\ UNCHANGED concVars

CallUptodateFile ==
  /\ Alive /\ clock < MaxClock
  /\ \E P \in CFiles, stat \in 1..MaxMtime :
       \E r \in {UptodateFileOf(P, stat)} :
          call' = Call("UptodateFile", P, NilTUDB, r.err, r.val, {})
  /\ clock' = clock + 1 /\ UNCHANGED <<impl, db, backing>> /\ UNCHANGED concVars

NextCorrupt ==
  \/ CacheInsertTUDB \/ KVInsertTUDB
  \/ DiskCorrupt
  \/ CallUptodateFile

SpecCorrupt == InitFault /\ [][NextCorrupt]_vars

\* ------------------------- the store of request-handler.go and its reload
\* Its InsertTUDB, RemoveFileReferences, removeFileFromHeader and
\* GetSymbolsTUDB are those of the cached store, statement for statement;
\* it keeps no index file: FlushDB ends after the loop, and newSymbolsDB
\* walks the database directory and loads every file it can decode into a
\* slot keyed by the id of the file the record names.
FlushDB_rh(s, saveFrom, ord) ==
  Ret(flushSlots(s, InOrder(ord, DOMAIN s.TUDBs), saveFrom), "", {})

newSymbolsDB_rh(s) ==
  [s EXCEPT !.TUDBs =
     [fid \in {getStringEncode(loadSymbolsTUDB(s.disk[x]).File) : x \in DOMAIN s.disk} |->
        NewCache(loadSymbolsTUDB(s.disk[fid]), loadSymbolsTUDB(s.disk[fid]).Mtime,
                 loadSymbolsTUDB(s.disk[fid]).File, 0, FALSE)]]

InitRH ==
  /\ impl = "rh"
  /\ db = EmptyStore /\ backing = EmptyMap /\ clock = 1
  /\ call = Call("", "", NilTUDB, "", {}, {})
  /\ tu = newSymbolsTUDB("a.c", 1)
  /\ EngineOff
  /\ work = [p \in Procs |-> <<>>] /\ done = [p \in Procs |-> 0]
  /\ runs = [p \in Procs |-> 0] /\ txn = [p \in Procs |-> NoTxn]
  /\ ts = 0 /\ commitTs = EmptyMap /\ errs = {}

RHInsertTUDB ==
  /\ Alive /\ clock < MaxClock /\ impl = "rh"
  /\ \E tudb \in ParsedTUDBs :
     \E ord1 \in HeaderOrders(StoredTUDB(db, getStringEncode(tudb.File))), ord2 \in HeaderOrders(tudb) :
       \E r \in {InsertTUDB(db, tudb, ord1, ord2, clock, TRUE)} :
          /\ db' = r.s
          /\ call' = Call("InsertTUDB", tudb.File, tudb, r.err, {},
                          DOMAIN db.TUDBs \ DOMAIN r.s.TUDBs)
  /\ clock' = clock + 1 /\ UNCHANGED <<impl, backing>> /\ UNCHANGED concVars

RHRemoveFileReferences ==
  /\ Alive /\ clock < MaxClock /\ impl = "rh"
  /\ \E file \in CFiles :
     \E ord \in HeaderOrders(StoredTUDB(db, getStringEncode(file))) :
       \E r \in {RemoveFileReferences(db, file, ord, clock)} :
          /\ db' = r.s
          /\ call' = Call("RemoveFileReferences", file, NilTUDB, r.err, {},
                          DOMAIN db.TUDBs \ DOMAIN r.s.TUDBs)
  /\ clock' = clock + 1 /\ UNCHANGED <<impl, backing>> /\ UNCHANGED concVars

RHFlushDB ==
  /\ Alive /\ clock < MaxClock /\ impl = "rh"
  /\ \E saveFrom \in 0..clock, ord \in SlotOrders(db) :
       \E r \in {FlushDB_rh(db, saveFrom, ord)} :
          /\ db' = r.s
          /\ call' = Call("FlushDB", "", NilTUDB, r.err, {},
                          DOMAIN db.TUDBs \ DOMAIN r.s.TUDBs)
  /\ clock' = clock + 1 /\ UNCHANGED <<impl, backing>> /\ UNCHANGED concVars

\* the process stops between two calls, without a flush, and a new process
\* opens the store on the same directory
RHStopAndReload ==
  /\ Alive /\ clock < MaxClock /\ impl = "rh"
  /\ db' = newSymbolsDB_rh(db)
  /\ call' = Call("Reload", "", NilTUDB, "", {}, DOMAIN db.TUDBs \ DOMAIN newSymbolsDB_rh(db).TUDBs)
  /\ clock' = clock + 1 /\ UNCHANGED <<impl, backing>> /\ UNCHANGED concVars

NextRH == RHInsertTUDB \/ RHRemoveFileReferences \/ RHFlushDB \/ RHStopAndReload

SpecRH == InitRH /\ [][NextRH]_vars

\* --------------------------------------- queries at any line of a file
\* A request carries ints: the lines of a long file go beyond what int16
\* holds.  The requests name a line of a.c or b.c and the line 65536 further.
WideLocReqs ==
  {[File |-> F, Line |-> l + k * 65536, Col |-> 1] : F \in CFiles, l \in 1..2, k \in 0..1}

CacheGetSymbolDeclWide ==
  /\ Alive /\ clock < MaxClock /\ impl = "cache"
  /\ \E useReq \in WideLocReqs, ord \in Perms(CIDs) :
       \E r \in {GetSymbolDecl(db, useReq, ord, clock)} :
          /\ db' = r.s
          /\ call' = Call("GetSymbolDecl", useReq.File, NilTUDB, r.err, [req |-> useReq, res |-> r.val], {})
  /\ clock' = clock + 1 /\ UNCHANGED <<impl, backing>> /\ UNCHANGED concVars

NextWide == CacheInsertSymTUDB \/ CacheGetSymbolDeclWide

SpecWide == InitCache /\ [][NextWide]_vars

\* ------------------------------------------------------------------ claims

\* C1 (I1, includer symmetry): after any sequence of InsertTUDB,
\* RemoveFileReferences and RemoveFileDepsReferences calls, every header id H
\* in the Headers of a stored compiled TU T has a record, and that record's
\* Includers contains T.  Stated for the stores the claim cites (key/value
\* store and cached store).
C1_IncluderSymmetry ==
  impl \in {"kv", "cache"} =>
    \A t \in StoredIDs \cap CIDs : \A h \in HeadersOf(t) :
       h \in StoredIDs /\ t \in IncludersOf(h)

\* C2 (I2): after any sequence of InsertTUDB and RemoveFileReferences calls
\* on the key/value store, re-insertions with another header set included,
\* every includer F of a stored record H is stored and lists H in its
\* Headers, and a successful GetIncluders(H) returns exactly the stored files
\* that list H.
C2_IncludersListed ==
  impl = "kv" =>
    /\ \A h \in StoredIDs : \A f \in IncludersOf(h) :
          f \in StoredIDs /\ h \in HeadersOf(f)
    /\ (call.op = "GetIncluders" /\ call.err = "") =>
          call.val = {PathOf(f) : f \in {x \in StoredIDs : getStringEncode(call.file) \in HeadersOf(x)}}

C4_MtimeMonotone ==
  [][\A F \in CFiles :
       (impl \in {"kv", "cache"} /\ call'.op = "InsertTUDB" /\ call'.tudb.File = F) =>
          MtimeOf(getStringEncode(F))' >= MtimeOf(getStringEncode(F))]_vars

\* C5: an InsertTUDB(new) call on the cached store or its predecessor, made
\* while the stored record of new.File has an mtime strictly greater than
\* new.Mtime, panics.
C5_OlderInsertPanics ==
  [][(impl \in {"cache", "old"} /\ call'.op = "InsertTUDB"
        /\ MtimeOf(getStringEncode(call'.file)) > call'.tudb.Mtime) =>
       call'.err = "panic"]_vars

\* C6 (I5, all-or-nothing): an InsertTUDB(new) call on the cached store or
\* the key/value store either returns nil with the record of new.File and
\* its includer links installed, or returns an error and leaves the store as
\* it was before the call, the old record of the file included.
C6_InsertAllOrNothing ==
  [][(impl \in {"cache", "kv"} /\ call'.op = "InsertTUDB" /\ call'.err # "panic") =>
       IF call'.err = ""
       THEN LET f == getStringEncode(call'.tudb.File)
            IN /\ f \in DOMAIN View'
               /\ View'[f].Mtime = call'.tudb.Mtime
               /\ View'[f].Headers = call'.tudb.Headers
               /\ \A h \in DOMAIN call'.tudb.Headers :
                     h \in DOMAIN View' /\ f \in View'[h].Includers
       ELSE View' = View]_vars

\* C7 (P5, idempotence): in the key/value store and the cached store, right
\* after a successful InsertTUDB(T) a second InsertTUDB(T) succeeds and
\* leaves the keys and every record's mtime, headers and includers as they
\* are, whatever the order of its loops.
C7_InsertIdempotent ==
  (impl \in {"kv", "cache"} /\ call.op = "InsertTUDB" /\ call.err = "") =>
    \A ord1 \in HeaderOrders(call.tudb), ord2 \in HeaderOrders(call.tudb) :
       IF impl = "kv"
       THEN /\ InsertTUDB_kv(backing, call.tudb, ord2).err = ""
            /\ KVView(InsertTUDB_kv(backing, call.tudb, ord2).s) = View
       ELSE /\ InsertTUDB(db, call.tudb, ord1, ord2, clock, TRUE).err = ""
            /\ CacheView(InsertTUDB(db, call.tudb, ord1, ord2, clock, TRUE).s) = View

\* C9 (frame of RemoveFileReferences): a RemoveFileReferences(F) call that
\* returns nil on a stored TU F, in the cached store or its predecessor, deletes the record of
\* F, takes F out of the Includers of the headers in F.Headers, deletes those
\* of them left without includers, keeps the others, and leaves every other
\* record as it was.
C9_RemoveFrame ==
  [][\A F \in CFiles :
       (impl \in {"cache", "old"} /\ call'.op = "RemoveFileReferences" /\ call'.file = F
          /\ call'.err = "" /\ getStringEncode(F) \in StoredIDs) =>
         LET f == getStringEncode(F)
         IN /\ f \notin DOMAIN View'
            /\ \A h \in DOMAIN View[f].Headers :
                  IF h \in DOMAIN View /\ View[h].Includers \ {f} # {}
                  THEN h \in DOMAIN View' /\ View'[h] = [View[h] EXCEPT !.Includers = @ \ {f}]
                  ELSE h \notin DOMAIN View'
            /\ \A x \in DOMAIN View \ ({f} \cup DOMAIN View[f].Headers) :
                  x \in DOMAIN View' /\ View'[x] = View[x]]_vars

\* C10: a RemoveFileDepsReferences(H) call on a stored header H of the cached
\* store returns the paths of the includers H had when called, and after the
\* call none of these includers has a record.
C10_RemoveDeps ==
  [][\A H \in HFiles :
       (impl = "cache" /\ call'.op = "RemoveFileDepsReferences" /\ call'.file = H
          /\ getStringEncode(H) \in StoredIDs) =>
         /\ call'.err = ""
         /\ call'.val = {PathOf(f) : f \in IncludersOf(getStringEncode(H))}
         /\ \A f \in IncludersOf(getStringEncode(H)) : f \notin DOMAIN View']_vars

\* C8: while one goroutine runs InsertTUDB over toInsert and the other
\* RemoveFileReferences over toRemove (other files, same headers) on the
\* key/value store, no call returns an error, and when both are through the
\* store holds exactly the records of toInsert, none of toRemove, and for
\* every header the includers that were inserted and list it.
AllDone == \A p \in Procs : done[p] = Len(work[p]) /\ txn[p] = NoTxn
Inserted == {work["inserter"][i].tudb : i \in 1..Len(work["inserter"])}
C8_ConcurrentSerial ==
  /\ errs = {}
  /\ AllDone =>
       /\ StoredIDs \ HIDs = {getStringEncode(t.File) : t \in Inserted}
       /\ \A t \in Inserted :
            /\ View[getStringEncode(t.File)].Mtime = t.Mtime
            /\ View[getStringEncode(t.File)].Headers = t.Headers
       /\ \A h \in HIDs :
            /\ IncludersOf(h) = {getStringEncode(t.File) : t \in {x \in Inserted : h \in DOMAIN x.Headers}}
            /\ h \in StoredIDs <=> \E t \in Inserted : h \in DOMAIN t.Headers

\* C8: both goroutines are through, each had a transaction retried on a
\* conflict, and a header shared by all four TUs ends with the two inserted
C8_Witness ==
  /\ AllDone
  /\ \A p \in Procs : runs[p] > Len(work[p])
  /\ \E h \in HIDs :
       /\ \A p \in Procs : \A i \in 1..Len(work[p]) : h \in DOMAIN work[p][i].tudb.Headers
       /\ Cardinality(IncludersOf(h)) = 2
  /\ C8_ConcurrentSerial

\* C11: in the key/value store and the cached store UptodateFile(path) for a
\* path that is on disk returns without error, exist = TRUE exactly when a
\* record of the path is stored (a path just inserted has one, a path just
\* removed has none), and uptodate = TRUE exactly when that record's mtime
\* is not before the mtime of the file on disk; without a record it returns
\* (FALSE, FALSE).
C11_UptodateFile ==
  impl \in {"kv", "cache"} =>
    \A P \in Paths, m \in 1..MaxMtime :
      /\ UptodateFileOf(P, m).err = ""
      /\ UptodateFileOf(P, m).val =
           IF getStringEncode(P) \in StoredIDs
           THEN Uptodate(TRUE, RecordOf(getStringEncode(P)).Mtime >= m)
           ELSE Uptodate(FALSE, FALSE)
      /\ (call.op = "InsertTUDB" /\ call.err = "" /\ call.file = P) =>
           UptodateFileOf(P, m).val = Uptodate(TRUE, call.tudb.Mtime >= m)
      /\ (call.op = "RemoveFileReferences" /\ call.err = "" /\ call.file = P) =>
           UptodateFileOf(P, m).val = Uptodate(FALSE, FALSE)

\* C11: a.c was just inserted into the cached store with an mtime older than
\* its file now has, a header it names is as new as its file, b.c has no
\* record
C11_Witness ==
  /\ impl = "cache" /\ call.op = "InsertTUDB" /\ call.err = "" /\ call.file = "a.c"
  /\ UptodateFile(db, "a.c", 2).val = Uptodate(TRUE, FALSE)
  /\ UptodateFile(db, "a.h", 2).val = Uptodate(TRUE, TRUE)
  /\ UptodateFile(db, "b.c", 1).val = Uptodate(FALSE, FALSE)
  /\ C11_UptodateFile

\* C12: in the key/value store and the cached store GetSetFilesInDB returns
\* the paths of the stored records whose mtime is not zero, and these are
\* the files of the stored TUs and the headers that resolved to a file and
\* are named by a stored TU; no phantom header is among them.
C12_FilesInDB ==
  impl \in {"kv", "cache"} =>
    \E r \in {IF impl = "kv" THEN GetSetFilesInDB_kv(backing) ELSE GetSetFilesInDB(db)} :
      /\ r.err = ""
      /\ r.val = {PathOf(fid) : fid \in {x \in DOMAIN View : View[x].Mtime # 0}}
      /\ r.val = {PathOf(t) : t \in StoredIDs \cap CIDs}
                   \cup {PathOf(h) : h \in {x \in HIDs : \E t \in StoredIDs \cap CIDs : x \in HeadersOf(t)}}
      /\ r.val \cap {nonExistingHeaderName(h) : h \in HFiles} = {}

\* ---- C13 ----
\* After any sequence of InsertSymbolDecl, InsertSymbolDeclWithDef and
\* InsertSymbolUse calls on a TU record, every location that SymLoc maps to
\* a symbol is among the declarations, the definition or the use locations
\* of that symbol's SymData.
C13_LocationCoverage ==
  \A L \in DOMAIN tu.SymLoc :
    /\ tu.SymLoc[L] \in DOMAIN tu.SymData
    /\ \/ \E i \in 1..Len(tu.SymData[tu.SymLoc[L]].Decls) : tu.SymData[tu.SymLoc[L]].Decls[i] = L
       \/ tu.SymData[tu.SymLoc[L]].DefAvail /\ tu.SymData[tu.SymLoc[L]].Def = L
       \/ \E i \in 1..Len(tu.SymData[tu.SymLoc[L]].Uses) : tu.SymData[tu.SymLoc[L]].Uses[i].Loc = L

\* a declaration of g has taken a location over from a use of f, and f is
\* used at a second place
C13_Witness ==
  /\ \E L, M \in DOMAIN tu.SymLoc :
       /\ tu.SymLoc[L] = 42 /\ tu.SymLoc[M] = 41
       /\ 41 \in DOMAIN tu.SymData /\ Len(tu.SymData[41].Uses) = 2
       /\ tu.SymData[41].Uses[1].Loc = L
  /\ C13_LocationCoverage

\* ---- C14 ----
\* After any sequence of InsertSymbolUse calls on a TU record, no symbol's
\* Uses list holds two entries with the same location.
C14_UsesMerged ==
  \A id \in DOMAIN tu.SymData :
    \A i, j \in 1..Len(tu.SymData[id].Uses) :
      tu.SymData[id].Uses[i].Loc = tu.SymData[id].Uses[j].Loc => i = j

\* ---- C15 ----
\* After FlushDB(saveFrom) returns without error, every cache slot whose
\* last access time is not after saveFrom has dirty = false and no decoded
\* record, and if it was dirty its database file holds the record it had
\* in memory; every slot accessed after saveFrom keeps its decoded record
\* and its dirty flag.
C15_FlushDB ==
  [][(impl = "cache" /\ call'.op = "FlushDB" /\ call'.err = "") =>
       \A saveFrom \in 0..clock :
         (\E ord \in SlotOrders(db) : db' = FlushDB(db, saveFrom, ord).s) =>
           /\ DOMAIN db'.TUDBs = DOMAIN db.TUDBs
           /\ \A fid \in DOMAIN db.TUDBs :
                IF db.TUDBs[fid].accTime <= saveFrom
                THEN /\ db'.TUDBs[fid].dirty = FALSE
                     /\ db'.TUDBs[fid].tudb = NilTUDB
                     /\ db.TUDBs[fid].dirty =>
                          /\ fid \in DOMAIN db'.disk
                          /\ loadSymbolsTUDB(db'.disk[fid]) = db.TUDBs[fid].tudb
                ELSE /\ db'.TUDBs[fid].tudb = db.TUDBs[fid].tudb
                     /\ db'.TUDBs[fid].dirty = db.TUDBs[fid].dirty]_vars

\* a flush has written out and dropped the record of a.h, which was dirty,
\* and has left the record of b.h, accessed later, in memory and dirty
C15_Witness ==
  /\ impl = "cache" /\ call.op = "FlushDB" /\ call.err = ""
  /\ 21 \in DOMAIN db.TUDBs /\ 22 \in DOMAIN db.TUDBs
  /\ db.TUDBs[21].tudb = NilTUDB /\ ~db.TUDBs[21].dirty
  /\ 21 \in DOMAIN db.disk /\ db.disk[21].Includers = {11}
  /\ db.TUDBs[22].tudb # NilTUDB /\ db.TUDBs[22].dirty
  /\ db.TUDBs[22].accTime > db.TUDBs[21].accTime

\* ---- C16 ----
\* After a shutdown flush followed by a restart on the same database
\* directory, the store opens without error and holds the same records
\* (same files, mtimes, headers and includers) as before the shutdown, so
\* UptodateFile returns (true, true) for every stored file that is unchanged.
C16_RestartKeepsStore ==
  [][call'.op = "Restart" =>
       /\ call'.err = ""
       /\ View' = View
       /\ \A P \in Paths, m \in Mtimes \cup HMtimes :
            (getStringEncode(P) \in StoredIDs /\ MtimeOf(getStringEncode(P)) = m) =>
              /\ UptodateFileOf(P, m)'.err = ""
              /\ UptodateFileOf(P, m)'.val = Uptodate(TRUE, TRUE)]_vars

\* ---- C17 ----
\* GetSymbolDecl at a location L whose file has a stored record returns the
\* Decls list of the symbol that SymLoc maps L to in the context record (the
\* file's own record, or the record of one of its includers when the file
\* is a header), each declaration mapped back to (path, line, col); when L
\* is not in the context record's SymLoc the outcome is 'not found'.
C17_GetSymbolDecl ==
  (call.op = "GetSymbolDecl" /\ getStringEncode(call.file) \in StoredIDs) =>
    \E ctx \in IF RecordOf(getStringEncode(call.file)).Includers = {}
               THEN {RecordOf(getStringEncode(call.file))}
               ELSE {RecordOf(t) : t \in RecordOf(getStringEncode(call.file)).Includers} :
      IF getSymbolLoc(call.val.req) \in DOMAIN ctx.SymLoc
      THEN /\ call.err = ""
           /\ \E D \in {ctx.SymData[ctx.SymLoc[getSymbolLoc(call.val.req)]].Decls} :
                /\ Len(call.val.res) = Len(D)
                /\ \A i \in 1..Len(D) :
                     call.val.res[i] = [File |-> PathOf(D[i].File), Line |-> D[i].Line, Col |-> D[i].Col]
      ELSE call.err = "Symbol use not found"

\* ---- C18 ----
\* GetSymbolUses at a location of symbol S returns, with no location
\* repeated, the union of S's uses in the context record and S's uses in
\* every other includer of each header that holds a declaration of S.
C18_GetSymbolUses ==
  (call.op = "GetSymbolUses" /\ getStringEncode(call.file) \in StoredIDs) =>
    \E c \in IF RecordOf(getStringEncode(call.file)).Includers = {}
             THEN {getStringEncode(call.file)}
             ELSE RecordOf(getStringEncode(call.file)).Includers :
      getSymbolLoc(call.val.req) \in DOMAIN RecordOf(c).SymLoc =>
        \E S \in {RecordOf(c).SymLoc[getSymbolLoc(call.val.req)]} :
          /\ call.err = ""
          /\ \A i, j \in 1..Len(call.val.res) : call.val.res[i] = call.val.res[j] => i = j
          /\ {call.val.res[i] : i \in 1..Len(call.val.res)} =
               {[File |-> PathOf(u.File), Line |-> u.Line, Col |-> u.Col] :
                  u \in UNION {{RecordOf(t).SymData[S].Uses[i].Loc :
                                  i \in 1..Len(RecordOf(t).SymData[S].Uses)} :
                               t \in {x \in {c} \cup UNION {IncludersOf(d.File) :
                                        d \in {y \in {RecordOf(c).SymData[S].Decls[i] :
                                                 i \in 1..Len(RecordOf(c).SymData[S].Decls)} :
                                               y.File # c}} :
                                      S \in DOMAIN RecordOf(x).SymData}}}

\* ---- C19 ----
\* GetSymbolDef at a location of symbol S returns S's definition from the
\* context record when DefAvail is set, otherwise the definition from
\* another includer of a declaring header that has DefAvail, and otherwise
\* signals 'not found'; the call ends in one of these three outcomes.
C19_GetSymbolDef ==
  (call.op = "GetSymbolDef" /\ getStringEncode(call.file) \in StoredIDs) =>
    \E c \in IF RecordOf(getStringEncode(call.file)).Includers = {}
             THEN {getStringEncode(call.file)}
             ELSE RecordOf(getStringEncode(call.file)).Includers :
      getSymbolLoc(call.val.req) \in DOMAIN RecordOf(c).SymLoc =>
        \E S \in {RecordOf(c).SymLoc[getSymbolLoc(call.val.req)]} :
          \E others \in {{t \in UNION {IncludersOf(d.File) :
                                 d \in {y \in {RecordOf(c).SymData[S].Decls[i] :
                                          i \in 1..Len(RecordOf(c).SymData[S].Decls)} :
                                        y.File # c}} \ {c} :
                            S \in DOMAIN RecordOf(t).SymData /\ RecordOf(t).SymData[S].DefAvail}} :
            IF RecordOf(c).SymData[S].DefAvail
            THEN /\ call.err = ""
                 /\ \E d \in {RecordOf(c).SymData[S].Def} :
                      call.val.res = [File |-> PathOf(d.File), Line |-> d.Line, Col |-> d.Col]
            ELSE IF others # {}
            THEN /\ call.err = ""
                 /\ \E d \in {RecordOf(t).SymData[S].Def : t \in others} :
                      call.val.res = [File |-> PathOf(d.File), Line |-> d.Line, Col |-> d.Col]
            ELSE call.err = "Definition not found"

\* ---- C20 ----
\* When a TU includes a header that cannot be resolved to a file, a record
\* with mtime zero under the name of the unresolved include holds that TU as
\* includer, and once the header file is on disk GetIncluders for the
\* header's path returns every TU that included the missing header.
C20_PhantomIncluders ==
  /\ \A t \in StoredIDs \cap CIDs, h \in HFiles :
       getStringEncode(nonExistingHeaderName(h)) \in HeadersOf(t) =>
         /\ getStringEncode(nonExistingHeaderName(h)) \in StoredIDs
         /\ MtimeOf(getStringEncode(nonExistingHeaderName(h))) = 0
         /\ t \in IncludersOf(getStringEncode(nonExistingHeaderName(h)))
  /\ (call.op = "GetIncluders" /\ call.val.req # 0) =>
       /\ call.err = ""
       /\ \A t \in StoredIDs \cap CIDs :
            getStringEncode(nonExistingHeaderName(call.file)) \in HeadersOf(t) =>
              PathOf(t) \in call.val.res

C22_NoDeadlock ==
  ~ \E t \in Tasks :
      /\ crash = "" /\ ~files.closed
      /\ task[t].wr /\ task[t].pend # <<>> /\ Len(files.q) = NIndexingThreads
      /\ \A w \in Workers \ {t} : task[w].pc \in {"uptodateFile", "Parse"} /\ task[w].pend = <<>>

\* C23: in every interleaving of workers, file modifications and watcher
\* events the reconcile step never receives a completed parse whose mtime is
\* older than the record stored for that file, so InsertTUDB never panics
\* with 'Inserting older tudb'.
C23_NoInversion ==
  /\ call.err # "panic"
  /\ \A i \in 1..Len(doneTUR) :
       getStringEncode(doneTUR[i].File) \in DOMAIN db.TUDBs
         => db.TUDBs[getStringEncode(doneTUR[i].File)].Mtime <= doneTUR[i].Mtime

C25_RemoveEvent ==
  [][\A name \in EngC :
       (/\ fsys[name] = 0 /\ name \in DOMAIN wdb.files
        /\ task'["watcher"].pc = "idle" /\ task'["watcher"].pend = <<>>
        /\ \/ /\ task["watcher"].pc = "idle" /\ events.q # <<>>
              /\ events'.q = Tail(events.q) /\ events'.closed = events.closed
              /\ Head(events.q).Name = name /\ Head(events.q).Op \in {"Remove", "Rename"}
           \/ /\ task["watcher"].pc = "handleFileChange" /\ task["watcher"].file = name
              /\ task["watcher"].op \in {"Remove", "Rename"})
       => name \notin DOMAIN wdb'.files]_vars

\* C26: after a header with a stored record is modified on disk and its
\* Write event is handled, every TU that included it is removed from the
\* store and enqueued for reparse, and (unless the engine is shut down) each
\* of them that is still on disk eventually has a record of its current
\* state again.
C26_HeaderWrite ==
  \A c \in EngC :
    [](/\ crash = "" /\ fsys[c] # 0
       /\ task["watcher"].op = "Write" /\ validH(task["watcher"].file)
       /\ \E i \in 1..Len(task["watcher"].pend) : task["watcher"].pend[i] = c
       => /\ c \notin DOMAIN wdb.files
          /\ <>(\/ c \in DOMAIN wdb.files /\ wdb.files[c] = fsys[c]
                \/ files.closed))

\* C27: when the walker reports a header whose stored record is older than
\* the file on disk, the engine removes the header's dependents from the
\* store and enqueues each of them for reparse.
C27_WalkStaleHeader ==
  [][\A h \in EngH :
       (/\ task["main"].pc = "walk" /\ task["main"].pend = <<>>
        /\ task["main"].todo # <<>> /\ Head(task["main"].todo) = h
        /\ task'["main"].todo = Tail(task["main"].todo)
        /\ h \in DOMAIN wdb.files /\ fsys[h] # 0 /\ wdb.files[h] < fsys[h])
       => \A c \in {x[1] : x \in {y \in wdb.deps : y[2] = h}} :
            /\ c \notin DOMAIN wdb'.files
            /\ \E i \in 1..Len(task'["main"].pend) : task'["main"].pend[i] = c]_vars

C29_Shutdown ==
  /\ writer.closed => files.closed
  /\ events.closed => writer.closed
  /\ files.closed => crash = ""
  /\ task["main"].pc = "done" => \A t \in Tasks \ {"main"} : task[t].pc = "exit"

\* C30: a C file taken from the parse queue (the walker sends every C file
\* it finds) whose stored record exists and is current is not parsed and
\* the store is not modified for it; a file is parsed only when its record
\* is absent or stale, and the file is then registered with its current
\* state.
C30_CurrentNotParsed ==
  [][\A w \in Workers :
       task[w].pc = "uptodateFile" /\ task'[w] # task[w] =>
         /\ (/\ task[w].file \in DOMAIN wdb.files /\ fsys[task[w].file] # 0
             /\ wdb.files[task[w].file] = fsys[task[w].file])
            => task'[w].pc = "idle" /\ wdb' = wdb
         /\ task'[w].pc = "Parse"
            => /\ \/ task[w].file \notin DOMAIN wdb.files
                  \/ wdb.files[task[w].file] # fsys[task[w].file]
               /\ wdb'.files[task[w].file] = fsys[task[w].file]]_vars

\* a worker has checked a.c, found its record current and gone back to the
\* queue; the store is as the previous run left it
C30_Witness ==
  \E w \in Workers :
    /\ task[w].pc = "idle" /\ task[w].file = "a.c" /\ task[w].ret
    /\ wdb = IndexedDB /\ fsys["a.c"] = 1

\* ---- C31 ----
\* A use recorded with FuncCall = true stays where it is with FuncCall =
\* true through every later insert; and an InsertSymbolUse of a call
\* expression at a location that is free or registered to the same symbol
\* ends with a use at that location whose FuncCall is true, whether the
\* decl-ref at that location came before or comes after.
C31_FuncCallSticky ==
  [][/\ \A id \in DOMAIN tu.SymData : \A i \in 1..Len(tu.SymData[id].Uses) :
          tu.SymData[id].Uses[i].FuncCall =>
            /\ id \in DOMAIN tu'.SymData
            /\ i <= Len(tu'.SymData[id].Uses)
            /\ tu'.SymData[id].Uses[i] = tu.SymData[id].Uses[i]
     /\ (/\ call'.op = "InsertSymbolUse" /\ clock' = clock + 1
         /\ call'.val.dec # NilSym /\ call'.val.funcCall
         /\ \/ getSymbolLoc(call'.val.sym.loc) \notin DOMAIN tu.SymLoc
            \/ tu.SymLoc[getSymbolLoc(call'.val.sym.loc)] = getStringEncode(call'.val.dec.usr))
        => /\ getStringEncode(call'.val.dec.usr) \in DOMAIN tu'.SymData
           /\ \E i \in 1..Len(tu'.SymData[getStringEncode(call'.val.dec.usr)].Uses) :
                tu'.SymData[getStringEncode(call'.val.dec.usr)].Uses[i]
                  = [Loc |-> getSymbolLoc(call'.val.sym.loc), FuncCall |-> TRUE]]_vars

\* the decl-ref of f at line 1 has just been inserted after the call
\* expression at the same place: one use, with FuncCall = true
C31_Witness ==
  /\ call.op = "InsertSymbolUse" /\ call.val.dec # NilSym /\ ~call.val.funcCall
  /\ call.val.sym.loc = [File |-> "a.c", Line |-> 1, Col |-> 1]
  /\ getStringEncode(call.val.dec.usr) \in DOMAIN tu.SymData
  /\ tu.SymData[getStringEncode(call.val.dec.usr)].Uses
       = <<[Loc |-> getSymbolLoc(call.val.sym.loc), FuncCall |-> TRUE]>>

\* ---- C32 ----
\* InsertSymbolUse at a location that SymLoc maps to the id of another
\* symbol changes nothing in the TU record.
C32_MaskedUseDropped ==
  [][(/\ call'.op = "InsertSymbolUse" /\ clock' = clock + 1
      /\ call'.val.dec # NilSym
      /\ getSymbolLoc(call'.val.sym.loc) \in DOMAIN tu.SymLoc
      /\ tu.SymLoc[getSymbolLoc(call'.val.sym.loc)] # getStringEncode(call'.val.dec.usr))
     => tu' = tu]_vars

\* a use of one symbol has just been offered at a place registered to the
\* other symbol, which the record still names there
C32_Witness ==
  /\ call.op = "InsertSymbolUse" /\ call.val.dec # NilSym
  /\ getSymbolLoc(call.val.sym.loc) \in DOMAIN tu.SymLoc
  /\ tu.SymLoc[getSymbolLoc(call.val.sym.loc)] # getStringEncode(call.val.dec.usr)
  /\ getStringEncode(call.val.dec.usr) \notin DOMAIN tu.SymData

\* ---- C33 ----
\* No location with a line or a column that is zero or negative is ever in
\* a TU record: not as a key of SymLoc, not in Decls, not as Def, not in
\* Uses (an insert with such a cursor leaves the record unchanged).
C33_PositiveLocations ==
  /\ \A L \in DOMAIN tu.SymLoc : L.Line > 0 /\ L.Col > 0
  /\ \A id \in DOMAIN tu.SymData :
       /\ \A i \in 1..Len(tu.SymData[id].Decls) :
            tu.SymData[id].Decls[i].Line > 0 /\ tu.SymData[id].Decls[i].Col > 0
       /\ \A i \in 1..Len(tu.SymData[id].Uses) :
            tu.SymData[id].Uses[i].Loc.Line > 0 /\ tu.SymData[id].Uses[i].Loc.Col > 0
       /\ tu.SymData[id].DefAvail => tu.SymData[id].Def.Line > 0 /\ tu.SymData[id].Def.Col > 0

\* ---- C34 ----
\* UptodateFile for a file whose stored bytes cannot be decoded reports
\* exist = FALSE, as for a file without a record.
C34_CorruptIsAbsent ==
  [][(/\ call'.op = "UptodateFile" /\ clock' = clock + 1
      /\ \/ /\ impl = "kv" /\ getStringEncode(call'.file) \in DOMAIN backing
            /\ backing[getStringEncode(call'.file)] = TruncatedBin
         \/ /\ impl = "cache" /\ getStringEncode(call'.file) \in DOMAIN db.disk
            /\ db.disk[getStringEncode(call'.file)] = TruncatedBin)
     => ~call'.val.exist]_vars

\* ---- C35 ----
\* For a query at a location of a stored header with two includers the
\* three queries give the same answer (the same error, the same locations)
\* whichever includer the range in getIncluder yields first.
C35_IncluderChoice ==
  impl = "cache" =>
    \A req \in LocReqs :
      (/\ req.File \in HFiles /\ getStringEncode(req.File) \in DOMAIN db.TUDBs
       /\ Cardinality(StoredTUDB(db, getStringEncode(req.File)).Includers) > 1)
      => \A ord1, ord2 \in Perms(CIDs) :
           /\ \A r1 \in {GetSymbolDecl(db, req, ord1, clock)}, r2 \in {GetSymbolDecl(db, req, ord2, clock)} :
                r1.err = r2.err /\ r1.val = r2.val
           /\ \A useOrd \in UseOrders :
                \A r1 \in {GetSymbolUses(db, req, ord1, useOrd, clock)},
                   r2 \in {GetSymbolUses(db, req, ord2, useOrd, clock)} :
                  /\ r1.err = r2.err
                  /\ r1.err = "" => {r1.val[i] : i \in 1..Len(r1.val)} = {r2.val[i] : i \in 1..Len(r2.val)}
           /\ \A r1 \in {GetSymbolDef(db, req, ord1, clock)}, r2 \in {GetSymbolDef(db, req, ord2, clock)} :
                r1.err = r2.err /\ r1.val = r2.val

\* ---- C36 ----
\* A RemoveFileReferences(F) call that returns an error leaves the stored
\* records as they were: no header has lost F as includer, no record has
\* been deleted.
C36_FailedRemoveKeepsStore ==
  [][(/\ impl \in {"cache", "kv"} /\ call'.op = "RemoveFileReferences"
      /\ clock' = clock + 1 /\ call'.err # "")
     => View' = View]_vars

\* ---- C37 ----
\* In the cached store every slot without a decoded record has a database
\* file; a step that drops the decoded record of a slot leaves that record
\* in the slot's database file, and the file of a slot that stays without
\* a decoded record is not changed.
C37_UnloadedSlotsOnDisk ==
  [][impl = "cache" =>
       \A fid \in DOMAIN db'.TUDBs :
         db'.TUDBs[fid].tudb = NilTUDB =>
           /\ fid \in DOMAIN db'.disk
           /\ (fid \in DOMAIN db.TUDBs /\ db.TUDBs[fid].tudb # NilTUDB
                 /\ db.TUDBs[fid].Path \in HFiles /\ call'.op = "FlushDB")
              => loadSymbolsTUDB(db'.disk[fid]) = db.TUDBs[fid].tudb
           /\ (fid \in DOMAIN db.TUDBs /\ db.TUDBs[fid].tudb = NilTUDB
                 /\ db.TUDBs[fid].Path \in HFiles /\ fid \in DOMAIN db.disk)
              => db'.disk[fid] = db.disk[fid]]_vars

\* a flush has dropped the record of a.h after both a.c and b.c were added
\* to its includers; the database file of a.h names both
C37_Witness ==
  /\ impl = "cache" /\ call.op = "FlushDB" /\ call.err = ""
  /\ 21 \in DOMAIN db.TUDBs /\ db.TUDBs[21].tudb = NilTUDB
  /\ 21 \in DOMAIN db.disk /\ db.disk[21].Includers = {11, 12}

\* ---- C38 ----
\* After the process stopped between two calls without a flush and the
\* store was loaded again from its directory, every header listed by a
\* loaded TU has a loaded record that names the TU as includer.
C38_ReloadSymmetry ==
  (impl = "rh" /\ call.op = "Reload") =>
    \A t \in DOMAIN db.TUDBs \cap CIDs :
      \A h \in DOMAIN StoredTUDB(db, t).Headers :
        h \in DOMAIN db.TUDBs /\ t \in StoredTUDB(db, h).Includers

\* ---- C39 ----
\* An InsertTUDB of a record of a stored file, with the mtime of the stored
\* record and with an older mtime for a header than the stored record has
\* for it, does not replace the stored record.
C39_NoOlderHeadersReplace ==
  [][\A F \in CFiles :
       (/\ call'.op = "InsertTUDB" /\ call'.file = F /\ clock' = clock + 1
        /\ getStringEncode(F) \in StoredIDs
        /\ RecordOf(getStringEncode(F)).Mtime = call'.tudb.Mtime
        /\ \E h \in DOMAIN call'.tudb.Headers \cap DOMAIN RecordOf(getStringEncode(F)).Headers :
             RecordOf(getStringEncode(F)).Headers[h] > call'.tudb.Headers[h])
       => /\ getStringEncode(F) \in StoredIDs'
          /\ RecordOf(getStringEncode(F))'.Headers = RecordOf(getStringEncode(F)).Headers]_vars

\* ---- C40 ----
\* getSymbolLoc maps two requests for one file that differ in line or
\* column to different internal locations, and a GetSymbolDecl at a line
\* beyond every line of the stored records finds no symbol.
C40_LocInjective ==
  [][(call'.op = "GetSymbolDecl" /\ clock' = clock + 1) =>
       /\ \A r \in WideLocReqs :
            (r.File = call'.val.req.File
               /\ (r.Line # call'.val.req.Line \/ r.Col # call'.val.req.Col))
            => getSymbolLoc(r) # getSymbolLoc(call'.val.req)
       /\ call'.val.req.Line > 4 => call'.err # ""]_vars

====
